---- MODULE Spec2Model ----
(***************************************************************************)
(* requestr: a byte-level HTTP toolkit.  This module models               *)
(*   - the network sends of RawHttp (src/src/client.ts) and Http2Client   *)
(*     (src/unnamed/part_002): one promise per send, driven by the socket *)
(*     callbacks open/data/end/close/error/connectError and one timer;    *)
(*   - the pure functions the sends call when they complete               *)
(*     (ResponseParser.parse, parseMultipleResponses, the HTTP/2 frame    *)
(*     parser and the HPACK decoder);                                     *)
(*   - ConnectionPool (src/src/pool.ts).                                  *)
(* A buffer is a sequence of bytes and a string a sequence of UTF-16     *)
(* code units, indexed from 0 in the helpers below as in the source;      *)
(* toString("utf-8") and Buffer.from convert between the two.             *)
(***************************************************************************)
EXTENDS Integers, Sequences, FiniteSets, TLC

VARIABLES
    op,            \* the send in progress: the closure state of its promise executor
    sends,         \* number of sends called so far on the clients
    dynamicTable,  \* Http2Client.frameParser.hpackDecoder.dynamicTable
    pool,          \* ConnectionPool fields: connections (Map), cleanupInterval
    arrays,        \* heap of PooledConnection[] array objects
    conn,          \* heap of PooledConnection objects, with their sockets
    proc,          \* callers of the pool: position in acquire, locals
    now,           \* Date.now()
    inbound,       \* the responses a peer sent down one pipelined connection
    split,         \* what parseMultipleResponses made of their concatenation
    builders,      \* heap of RequestBuilder objects: the original and its clones
    headerArrays,  \* heap of the _headers array objects of the builders
    built,         \* what the last build() returned, and of which builder
    calls,         \* number of builder methods the caller has called
    hpackHeaders,  \* a Map of headers a caller fills to have it encoded
    encoded,       \* the block an HpackEncoder made of it, and its decoding
    frameCall,     \* a call of buildFrame: its arguments, the bytes, their parse
    h2send,        \* an Http2Client.sendRequest: its options, what it wrote
    h2frames,      \* the frames a peer sent down an HTTP/2 connection
    h2response,    \* what extractResponse made of them for stream 1
    parseInput,    \* a buffer given to ResponseParser.parse
    parseOutput,   \* the record it returned
    timed,         \* a send with its TimingMetrics and the clock it reads
    decoderLog,    \* the blocks one HpackDecoder was given, call by call
    framing        \* a buffer given to parseAllFrames and the frames returned

vars == <<op, sends, dynamicTable, pool, arrays, conn, proc, now, inbound, split,
          builders, headerArrays, built, calls, hpackHeaders, encoded,
          frameCall, h2send, h2frames, h2response, parseInput, parseOutput,
          timed, decoderLog, framing>>

sendVars == <<op, sends, dynamicTable>>

poolVars == <<pool, arrays, conn, proc, now>>

splitVars == <<inbound, split>>

builderVars == <<builders, headerArrays, built, calls>>

hpackVars == <<hpackHeaders, encoded>>

frameVars == <<frameCall, h2send, h2frames, h2response>>

parseVars == <<parseInput, parseOutput>>

timingVars == <<timed>>

codecVars == <<decoderLog, framing>>

\* What a step of a send leaves alone, and what a step of the pool does.
notSendVars == <<poolVars, splitVars, builderVars, hpackVars, frameVars, parseVars,
                 timingVars, codecVars>>

notPoolVars == <<sendVars, splitVars, builderVars, hpackVars, frameVars, parseVars,
                 timingVars, codecVars>>

notBuilderVars == <<sendVars, poolVars, splitVars, hpackVars, frameVars, parseVars,
                 timingVars, codecVars>>

notHpackVars == <<sendVars, poolVars, splitVars, builderVars, frameVars, parseVars,
                 timingVars, codecVars>>

notFrameVars == <<sendVars, poolVars, splitVars, builderVars, hpackVars, parseVars,
                 timingVars, codecVars>>

notParseVars == <<sendVars, poolVars, splitVars, builderVars, hpackVars, frameVars,
                  timingVars, codecVars>>

notTimingVars == <<sendVars, poolVars, splitVars, builderVars, hpackVars, frameVars,
                   parseVars, codecVars>>

notCodecVars == <<poolVars, splitVars, builderVars, hpackVars, frameVars,
                  parseVars, timingVars>>

\* No pipelined reply is being looked at.
InitSplitUnused ==
    /\ inbound = <<>>
    /\ split = <<>>

\* The value of built while no result of build() is held.
NoBuild == [of |-> 0, request |-> <<>>]

\* No RequestBuilder has been constructed.
InitBuilderUnused ==
    /\ builders = <<>>
    /\ headerArrays = <<>>
    /\ built = NoBuild
    /\ calls = 0

\* The value of encoded while no block has been made of headers.
NotEncoded == [by |-> "none", block |-> <<>>, decoded |-> <<>>]

\* No Map of headers is being encoded, no frame built, no HTTP/2 request
\* sent, no frame received, and nothing given to the response parser.
InitHpackUnused ==
    /\ hpackHeaders = <<>>
    /\ encoded = NotEncoded

InitFrameUnused ==
    /\ frameCall = <<>>
    /\ h2send = <<>>
    /\ h2frames = <<>>
    /\ h2response = <<>>

InitParseUnused ==
    /\ parseInput = <<>>
    /\ parseOutput = <<>>

InitTimingUnused == timed = <<>>

\* No decoder has been given a block, no buffer was given to the frame parser.
InitCodecUnused ==
    /\ decoderLog = <<>>
    /\ framing = <<>>

(***************************************************************************)
(* JavaScript string primitives on sequences of character codes.          *)
(***************************************************************************)
Min(S) == CHOOSE x \in S : \A y \in S : x <= y

Max(S) == CHOOSE x \in S : \A y \in S : x >= y

\* String.prototype.substring(a, b): arguments clamped to 0..length, swapped
\* when a > b; the result is the code units a..b-1.
Substring(s, a, b) ==
    LET ca == IF a < 0 THEN 0 ELSE IF a > Len(s) THEN Len(s) ELSE a
        cb == IF b < 0 THEN 0 ELSE IF b > Len(s) THEN Len(s) ELSE b
        lo == IF ca <= cb THEN ca ELSE cb
        hi == IF ca <= cb THEN cb ELSE ca
    IN  SubSeq(s, lo + 1, hi)

\* String.prototype.substring(a): to the end of the string.
SubstringFrom(s, a) == Substring(s, a, Len(s))

\* String.prototype.indexOf(pat, from): the least 0-based index >= from at
\* which pat occurs, or -1.
IndexOf(s, pat, from) ==
    LET cands == { i \in from..(Len(s) - Len(pat)) :
                     SubSeq(s, i + 1, i + Len(pat)) = pat }
    IN  IF cands = {} THEN -1 ELSE Min(cands)

\* String.prototype.includes(pat)
Includes(s, pat) == IndexOf(s, pat, 0) # -1

IsDigit(c) == c \in 48..57

\* \s of a JavaScript regular expression and the characters trim() strips,
\* restricted to ASCII: TAB, LF, VT, FF, CR, SPACE.
IsSpace(c) == c \in {9, 10, 11, 12, 13, 32}

\* Line terminators of a JavaScript regular expression ('.' matches none).
IsLineTerminator(c) == c \in {10, 13}

ToLowerChar(c) == IF c \in 65..90 THEN c + 32 ELSE c

\* String.prototype.toLowerCase()
ToLowerCase(s) == [i \in 1..Len(s) |-> ToLowerChar(s[i])]

\* Number of leading characters of s, from 0-based index from, satisfying P.
RECURSIVE SpanSpace(_, _)
SpanSpace(s, from) ==
    IF from < Len(s) /\ IsSpace(s[from + 1]) THEN 1 + SpanSpace(s, from + 1) ELSE 0

RECURSIVE SpanDigit(_, _)
SpanDigit(s, from) ==
    IF from < Len(s) /\ IsDigit(s[from + 1]) THEN 1 + SpanDigit(s, from + 1) ELSE 0

\* parseInt(digits, 10) of a non-empty string of decimal digits.
RECURSIVE ParseInt(_)
ParseInt(d) ==
    IF d = <<>> THEN 0 ELSE 10 * ParseInt(SubSeq(d, 1, Len(d) - 1)) + (d[Len(d)] - 48)

\* String.prototype.trim()
Trim(s) ==
    LET keep == { i \in 1..Len(s) : ~IsSpace(s[i]) }
    IN  IF keep = {} THEN <<>> ELSE SubSeq(s, Min(keep), Max(keep))

CRLFCRLF == <<13, 10, 13, 10>>

LFLF == <<10, 10>>

\* "0\r\n\r\n"
ChunkedTerminator == <<48, 13, 10, 13, 10>>

\* "content-length:"
StrContentLength == <<99, 111, 110, 116, 101, 110, 116, 45, 108, 101, 110, 103, 116, 104, 58>>

\* "transfer-encoding:"
StrTransferEncoding ==
    <<116, 114, 97, 110, 115, 102, 101, 114, 45, 101, 110, 99, 111, 100, 105, 110, 103, 58>>

\* "chunked"
StrChunked == <<99, 104, 117, 110, 107, 101, 100>>

\* "http/"
StrHttpSlash == <<104, 116, 116, 112, 47>>

(***************************************************************************)
(* Buffer.toString("utf-8") and Buffer.from(string)                        *)
(***************************************************************************)
\* U+FFFD, what the decoder emits for a malformed sequence
ReplacementChar == 65533

\* The number of continuation bytes the lead byte b announces (-1: b is no
\* lead byte).
Utf8Need(b) ==
    IF b < 128 THEN 0
    ELSE IF b >= 194 /\ b <= 223 THEN 1
    ELSE IF b >= 224 /\ b <= 239 THEN 2
    ELSE IF b >= 240 /\ b <= 244 THEN 3
    ELSE -1

\* The range the first continuation byte after lead byte b must lie in.
Utf8Lower(b) == IF b = 224 THEN 160 ELSE IF b = 240 THEN 144 ELSE 128

Utf8Upper(b) == IF b = 237 THEN 159 ELSE IF b = 244 THEN 143 ELSE 191

\* The bits of the code point a lead byte carries.
Utf8LeadBits(b) ==
    IF b < 128 THEN b
    ELSE IF b <= 223 THEN b % 32
    ELSE IF b <= 239 THEN b % 16
    ELSE b % 8

\* Whether byte i (1-based) is a continuation byte the lead byte at j accepts:
\* the first one in the range of the lead, the others in 0x80..0xBF.
ContinuationOk(bytes, j, i) ==
    /\ i <= Len(bytes)
    /\ IF i = j + 1
       THEN bytes[i] >= Utf8Lower(bytes[j]) /\ bytes[i] <= Utf8Upper(bytes[j])
       ELSE bytes[i] >= 128 /\ bytes[i] <= 191

\* The n bytes after the lead byte at j are continuation bytes it accepts.
ValidRun(bytes, j, n) == \A i \in (j + 1)..(j + n) : ContinuationOk(bytes, j, i)

\* Byte i was read as a continuation byte of a lead byte before it.
Consumed(bytes, i) ==
    \E d \in 1..3 :
        /\ i - d >= 1
        /\ Utf8Need(bytes[i - d]) >= d
        /\ ValidRun(bytes, i - d, d)

\* The code point of the sequence of n + 1 bytes at j.
CodePointAt(bytes, j, n) ==
    IF n = 0 THEN bytes[j]
    ELSE IF n = 1 THEN (Utf8LeadBits(bytes[j]) * 64) + (bytes[j + 1] % 64)
    ELSE IF n = 2
    THEN (Utf8LeadBits(bytes[j]) * 4096) + ((bytes[j + 1] % 64) * 64) + (bytes[j + 2] % 64)
    ELSE (Utf8LeadBits(bytes[j]) * 262144) + ((bytes[j + 1] % 64) * 4096)
         + ((bytes[j + 2] % 64) * 64) + (bytes[j + 3] % 64)

\* The UTF-16 code units of a code point.
CodeUnits(cp) ==
    IF cp < 65536 THEN <<cp>>
    ELSE <<55296 + ((cp - 65536) \div 1024), 56320 + ((cp - 65536) % 1024)>>

\* What the decoder emits when it reaches byte i: nothing for a byte already
\* read, U+FFFD for a byte that is no lead byte or a sequence cut short, else
\* the code point.
UnitsAt(bytes, i) ==
    IF Consumed(bytes, i) THEN <<>>
    ELSE IF Utf8Need(bytes[i]) = -1 THEN <<ReplacementChar>>
    ELSE IF ValidRun(bytes, i, Utf8Need(bytes[i]))
    THEN CodeUnits(CodePointAt(bytes, i, Utf8Need(bytes[i])))
    ELSE <<ReplacementChar>>

\* The concatenation of parts[lo..hi].
RECURSIVE Flatten(_, _, _)
Flatten(parts, lo, hi) ==
    IF lo > hi THEN <<>>
    ELSE IF lo = hi THEN parts[lo]
    ELSE Flatten(parts, lo, (lo + hi) \div 2) \o Flatten(parts, ((lo + hi) \div 2) + 1, hi)

\* buffer.toString("utf-8")
Utf8Decode(bytes) ==
    Flatten([i \in 1..Len(bytes) |-> UnitsAt(bytes, i)], 1, Len(bytes))

IsHighSurrogate(u) == u >= 55296 /\ u <= 56319

IsLowSurrogate(u) == u >= 56320 /\ u <= 57343

\* The UTF-8 bytes of a code point.
Utf8Bytes(cp) ==
    IF cp < 128 THEN <<cp>>
    ELSE IF cp < 2048 THEN <<192 + (cp \div 64), 128 + (cp % 64)>>
    ELSE IF cp < 65536
    THEN <<224 + (cp \div 4096), 128 + ((cp \div 64) % 64), 128 + (cp % 64)>>
    ELSE <<240 + (cp \div 262144), 128 + ((cp \div 4096) % 64),
           128 + ((cp \div 64) % 64), 128 + (cp % 64)>>

\* What Buffer.from(string) emits for code unit i: a surrogate pair is one
\* code point, a lone surrogate becomes U+FFFD.
BytesAt(units, i) ==
    IF IsHighSurrogate(units[i]) /\ i < Len(units) /\ IsLowSurrogate(units[i + 1])
    THEN Utf8Bytes(65536 + ((units[i] - 55296) * 1024) + (units[i + 1] - 56320))
    ELSE IF IsLowSurrogate(units[i]) /\ i > 1 /\ IsHighSurrogate(units[i - 1])
    THEN <<>>
    ELSE IF IsHighSurrogate(units[i]) \/ IsLowSurrogate(units[i])
    THEN Utf8Bytes(ReplacementChar)
    ELSE Utf8Bytes(units[i])

\* Buffer.from(string)
Utf8Encode(units) ==
    Flatten([i \in 1..Len(units) |-> BytesAt(units, i)], 1, Len(units))

(***************************************************************************)
(* ResponseParser.parse (src/src/response.ts)                              *)
(***************************************************************************)
\* headerSection.split(/\r?\n/): cut at every LF, dropping one CR that
\* directly precedes the LF.
RECURSIVE SplitLines(_)
SplitLines(s) ==
    LET nl == IndexOf(s, <<10>>, 0)
    IN  IF nl = -1 THEN <<s>>
        ELSE LET cut == IF nl > 0 /\ s[nl] = 13 THEN nl - 1 ELSE nl
             IN  <<Substring(s, 0, cut)>> \o SplitLines(SubstringFrom(s, nl + 1))

\* statusLine.match(/^HTTP\/(\d+\.?\d*)\s+(\d+)\s*(.*)?$/i): the three groups,
\* or matched = FALSE.  Every quantifier is followed by a class disjoint from
\* its own, so the greedy match is the only candidate.
StatusMatch(line) ==
    LET p0   == 5
        d1   == SpanDigit(line, p0)
        p1   == p0 + d1
        dot  == IF p1 < Len(line) /\ line[p1 + 1] = 46 THEN 1 ELSE 0
        d2   == SpanDigit(line, p1 + dot)
        p2   == p1 + dot + d2
        ws   == SpanSpace(line, p2)
        p3   == p2 + ws
        d3   == SpanDigit(line, p3)
        p4   == p3 + d3
        ws2  == SpanSpace(line, p4)
        msg  == SubstringFrom(line, p4 + ws2)
        ok   == /\ Len(line) >= 5
                /\ ToLowerCase(Substring(line, 0, 5)) = StrHttpSlash
                /\ d1 >= 1
                /\ ws >= 1
                /\ d3 >= 1
                /\ \A i \in 1..Len(msg) : ~IsLineTerminator(msg[i])
    IN  IF ok
        THEN [matched |-> TRUE, version |-> Substring(line, p0, p2),
              code |-> Substring(line, p3, p4), message |-> msg]
        ELSE [matched |-> FALSE, version |-> <<>>, code |-> <<>>, message |-> <<>>]

\* response.headers.get(name) / push / set: an insertion-ordered multimap,
\* kept as a sequence of [name, values] entries.
HeaderAdd_Overwrites(headers, name, value) ==
    IF \E i \in 1..Len(headers) : headers[i].name = name
    THEN [i \in 1..Len(headers) |->
            IF headers[i].name = name
            THEN [headers[i] EXCEPT !.values = <<value>>]
            ELSE headers[i]]
    ELSE Append(headers, [name |-> name, values |-> <<value>>])

HeaderAdd(headers, name, value) ==
    IF \E i \in 1..Len(headers) : headers[i].name = name
    THEN [i \in 1..Len(headers) |->
            IF headers[i].name = name
            THEN [headers[i] EXCEPT !.values = Append(@, value)]
            ELSE headers[i]]
    ELSE Append(headers, [name |-> name, values |-> <<value>>])

\* The header loop over lines[1..]: a line is used when its first ':' is at
\* an index > 0.
RECURSIVE ParseHeaderLines(_, _, _)
ParseHeaderLines(lines, i, headers) ==
    IF i > Len(lines) THEN headers
    ELSE LET line == lines[i]
             colonIndex == IndexOf(line, <<58>>, 0)
         IN  IF line # <<>> /\ colonIndex > 0
             THEN ParseHeaderLines(lines, i + 1,
                    HeaderAdd(headers,
                              ToLowerCase(Trim(Substring(line, 0, colonIndex))),
                              Trim(SubstringFrom(line, colonIndex + 1))))
             ELSE ParseHeaderLines(lines, i + 1, headers)

\* ResponseParser.parse after raw.toString("utf-8"): raw is the string.
parseRawString_StopsAtStatusLine(raw) ==
    LET crlf == IndexOf(raw, CRLFCRLF, 0)
        lf   == IndexOf(raw, LFLF, 0)
        headerEndIndex  == IF crlf # -1 THEN crlf ELSE IF lf # -1 THEN lf ELSE Len(raw)
        separatorLength == IF crlf # -1 THEN 4 ELSE IF lf # -1 THEN 2 ELSE 0
        headerSection   == Substring(raw, 0, headerEndIndex)
        bodyStart       == headerEndIndex + separatorLength
        lines           == SplitLines(headerSection)
        statusLine      == lines[1]
        m               == StatusMatch(statusLine)
    IN  [raw           |-> raw,
         statusCode    |-> IF m.matched THEN ParseInt(m.code) ELSE 0,
         statusMessage |-> m.message,
         httpVersion   |-> m.version,
         headers       |-> IF m.matched THEN ParseHeaderLines(lines, 2, <<>>) ELSE <<>>,
         body          |-> SubstringFrom(raw, bodyStart),
         parseError    |-> IF m.matched THEN <<>> ELSE statusLine,
         hasParseError |-> ~m.matched]

parseRawString(raw) ==
    LET crlf == IndexOf(raw, CRLFCRLF, 0)
        lf   == IndexOf(raw, LFLF, 0)
        headerEndIndex  == IF crlf # -1 THEN crlf ELSE IF lf # -1 THEN lf ELSE Len(raw)
        separatorLength == IF crlf # -1 THEN 4 ELSE IF lf # -1 THEN 2 ELSE 0
        headerSection   == Substring(raw, 0, headerEndIndex)
        bodyStart       == headerEndIndex + separatorLength
        lines           == SplitLines(headerSection)
        statusLine      == lines[1]
        m               == StatusMatch(statusLine)
    IN  [raw           |-> raw,
         statusCode    |-> IF m.matched THEN ParseInt(m.code) ELSE 0,
         statusMessage |-> m.message,
         httpVersion   |-> m.version,
         headers       |-> ParseHeaderLines(lines, 2, <<>>),
         body          |-> SubstringFrom(raw, bodyStart),
         parseError    |-> IF m.matched THEN <<>> ELSE statusLine,
         hasParseError |-> ~m.matched]

ResponseParser_parse(raw) == parseRawString(Utf8Decode(raw))

(***************************************************************************)
(* parseMultipleResponses (src/src/client.ts, sendRawWithMultiResponse)    *)
(***************************************************************************)
\* headerSection.match(/content-length:\s*(\d+)/i): group 1 of the leftmost
\* match, or <<>> when there is none.
MatchContentLength(headerSection) ==
    LET n == Len(StrContentLength)
        at(p) == LET ws == SpanSpace(headerSection, p + n)
                 IN  [from |-> p + n + ws, digits |-> SpanDigit(headerSection, p + n + ws)]
        cands == { p \in 0..(Len(headerSection) - n) :
                     /\ ToLowerCase(Substring(headerSection, p, p + n)) = StrContentLength
                     /\ at(p).digits >= 1 }
    IN  IF cands = {} THEN <<>>
        ELSE LET a == at(Min(cands)) IN Substring(headerSection, a.from, a.from + a.digits)

\* headerSection.match(/transfer-encoding:\s*chunked/i) is not null.
MatchTransferEncodingChunked(headerSection) ==
    LET n == Len(StrTransferEncoding)
        k == Len(StrChunked)
    IN  \E p \in 0..(Len(headerSection) - n) :
            /\ ToLowerCase(Substring(headerSection, p, p + n)) = StrTransferEncoding
            /\ LET q == p + n + SpanSpace(headerSection, p + n)
               IN  /\ q + k <= Len(headerSection)
                   /\ ToLowerCase(Substring(headerSection, q, q + k)) = StrChunked

\* The end of the first response of remaining, given its separator.
bodyEndOf(remaining, headerEnd, sepLen) ==
    LET headerSection == Substring(remaining, 0, headerEnd)
        clMatch    == MatchContentLength(headerSection)
        teMatch    == MatchTransferEncodingChunked(headerSection)
        chunkedEnd == IndexOf(remaining, ChunkedTerminator, headerEnd)
    IN  IF clMatch # <<>> THEN headerEnd + sepLen + ParseInt(clMatch)
        ELSE IF teMatch
             THEN IF chunkedEnd # -1 THEN chunkedEnd + 5 ELSE Len(remaining)
             ELSE headerEnd + sepLen

RECURSIVE parseMultipleLoop(_, _, _, _)
parseMultipleLoop(remaining, i, expectedResponses, responses) ==
    IF ~(i < expectedResponses /\ Len(remaining) > 0) THEN responses
    ELSE LET crlf == IndexOf(remaining, CRLFCRLF, 0)
             lf   == IndexOf(remaining, LFLF, 0)
             headerEnd == IF crlf # -1 THEN crlf ELSE lf
             sepLen    == IF crlf # -1 THEN 4 ELSE 2
         IN  IF headerEnd = -1
             THEN Append(responses, ResponseParser_parse(Utf8Encode(remaining)))
             ELSE LET bodyEnd == bodyEndOf(remaining, headerEnd, sepLen)
                  IN  parseMultipleLoop(SubstringFrom(remaining, bodyEnd), i + 1,
                          expectedResponses,
                          Append(responses,
                                 ResponseParser_parse(
                                     Utf8Encode(Substring(remaining, 0, bodyEnd)))))

\* parseMultipleResponses without the bound on the number of responses
parseMultipleResponses_Unbounded(buffer, expectedResponses) ==
    parseMultipleLoop(Utf8Decode(buffer), 0, Len(buffer) + 1, <<>>)

parseMultipleResponses(buffer, expectedResponses) ==
    parseMultipleLoop(Utf8Decode(buffer), 0, expectedResponses, <<>>)

(***************************************************************************)
(* HPACK decoder (src/unnamed/part_002, class HpackDecoder)                *)
(***************************************************************************)
HPACK_STATIC_TABLE ==
    <<
      <<<<>>, <<>>>>,  \* 0 
      <<<<58, 97, 117, 116, 104, 111, 114, 105, 116, 121>>, <<>>>>,  \* 1 :authority
      <<<<58, 109, 101, 116, 104, 111, 100>>, <<71, 69, 84>>>>,  \* 2 :method GET
      <<<<58, 109, 101, 116, 104, 111, 100>>, <<80, 79, 83, 84>>>>,  \* 3 :method POST
      <<<<58, 112, 97, 116, 104>>, <<47>>>>,  \* 4 :path /
      <<<<58, 112, 97, 116, 104>>, <<47, 105, 110, 100, 101, 120, 46, 104, 116, 109, 108>>>>,  \* 5 :path /index.html
      <<<<58, 115, 99, 104, 101, 109, 101>>, <<104, 116, 116, 112>>>>,  \* 6 :scheme http
      <<<<58, 115, 99, 104, 101, 109, 101>>, <<104, 116, 116, 112, 115>>>>,  \* 7 :scheme https
      <<<<58, 115, 116, 97, 116, 117, 115>>, <<50, 48, 48>>>>,  \* 8 :status 200
      <<<<58, 115, 116, 97, 116, 117, 115>>, <<50, 48, 52>>>>,  \* 9 :status 204
      <<<<58, 115, 116, 97, 116, 117, 115>>, <<50, 48, 54>>>>,  \* 10 :status 206
      <<<<58, 115, 116, 97, 116, 117, 115>>, <<51, 48, 52>>>>,  \* 11 :status 304
      <<<<58, 115, 116, 97, 116, 117, 115>>, <<52, 48, 48>>>>,  \* 12 :status 400
      <<<<58, 115, 116, 97, 116, 117, 115>>, <<52, 48, 52>>>>,  \* 13 :status 404
      <<<<58, 115, 116, 97, 116, 117, 115>>, <<53, 48, 48>>>>,  \* 14 :status 500
      <<<<97, 99, 99, 101, 112, 116, 45, 99, 104, 97, 114, 115, 101, 116>>, <<>>>>,  \* 15 accept-charset
      <<<<97, 99, 99, 101, 112, 116, 45, 101, 110, 99, 111, 100, 105, 110, 103>>, <<103, 122, 105, 112, 44, 32, 100, 101, 102, 108, 97, 116, 101>>>>,  \* 16 accept-encoding gzip, deflate
      <<<<97, 99, 99, 101, 112, 116, 45, 108, 97, 110, 103, 117, 97, 103, 101>>, <<>>>>,  \* 17 accept-language
      <<<<97, 99, 99, 101, 112, 116, 45, 114, 97, 110, 103, 101, 115>>, <<>>>>,  \* 18 accept-ranges
      <<<<97, 99, 99, 101, 112, 116>>, <<>>>>,  \* 19 accept
      <<<<97, 99, 99, 101, 115, 115, 45, 99, 111, 110, 116, 114, 111, 108, 45, 97, 108, 108, 111, 119, 45, 111, 114, 105, 103, 105, 110>>, <<>>>>,  \* 20 access-control-allow-origin
      <<<<97, 103, 101>>, <<>>>>,  \* 21 age
      <<<<97, 108, 108, 111, 119>>, <<>>>>,  \* 22 allow
      <<<<97, 117, 116, 104, 111, 114, 105, 122, 97, 116, 105, 111, 110>>, <<>>>>,  \* 23 authorization
      <<<<99, 97, 99, 104, 101, 45, 99, 111, 110, 116, 114, 111, 108>>, <<>>>>,  \* 24 cache-control
      <<<<99, 111, 110, 116, 101, 110, 116, 45, 100, 105, 115, 112, 111, 115, 105, 116, 105, 111, 110>>, <<>>>>,  \* 25 content-disposition
      <<<<99, 111, 110, 116, 101, 110, 116, 45, 101, 110, 99, 111, 100, 105, 110, 103>>, <<>>>>,  \* 26 content-encoding
      <<<<99, 111, 110, 116, 101, 110, 116, 45, 108, 97, 110, 103, 117, 97, 103, 101>>, <<>>>>,  \* 27 content-language
      <<<<99, 111, 110, 116, 101, 110, 116, 45, 108, 101, 110, 103, 116, 104>>, <<>>>>,  \* 28 content-length
      <<<<99, 111, 110, 116, 101, 110, 116, 45, 108, 111, 99, 97, 116, 105, 111, 110>>, <<>>>>,  \* 29 content-location
      <<<<99, 111, 110, 116, 101, 110, 116, 45, 114, 97, 110, 103, 101>>, <<>>>>,  \* 30 content-range
      <<<<99, 111, 110, 116, 101, 110, 116, 45, 116, 121, 112, 101>>, <<>>>>,  \* 31 content-type
      <<<<99, 111, 111, 107, 105, 101>>, <<>>>>,  \* 32 cookie
      <<<<100, 97, 116, 101>>, <<>>>>,  \* 33 date
      <<<<101, 116, 97, 103>>, <<>>>>,  \* 34 etag
      <<<<101, 120, 112, 101, 99, 116>>, <<>>>>,  \* 35 expect
      <<<<101, 120, 112, 105, 114, 101, 115>>, <<>>>>,  \* 36 expires
      <<<<102, 114, 111, 109>>, <<>>>>,  \* 37 from
      <<<<104, 111, 115, 116>>, <<>>>>,  \* 38 host
      <<<<105, 102, 45, 109, 97, 116, 99, 104>>, <<>>>>,  \* 39 if-match
      <<<<105, 102, 45, 109, 111, 100, 105, 102, 105, 101, 100, 45, 115, 105, 110, 99, 101>>, <<>>>>,  \* 40 if-modified-since
      <<<<105, 102, 45, 110, 111, 110, 101, 45, 109, 97, 116, 99, 104>>, <<>>>>,  \* 41 if-none-match
      <<<<105, 102, 45, 114, 97, 110, 103, 101>>, <<>>>>,  \* 42 if-range
      <<<<105, 102, 45, 117, 110, 109, 111, 100, 105, 102, 105, 101, 100, 45, 115, 105, 110, 99, 101>>, <<>>>>,  \* 43 if-unmodified-since
      <<<<108, 97, 115, 116, 45, 109, 111, 100, 105, 102, 105, 101, 100>>, <<>>>>,  \* 44 last-modified
      <<<<108, 105, 110, 107>>, <<>>>>,  \* 45 link
      <<<<108, 111, 99, 97, 116, 105, 111, 110>>, <<>>>>,  \* 46 location
      <<<<109, 97, 120, 45, 102, 111, 114, 119, 97, 114, 100, 115>>, <<>>>>,  \* 47 max-forwards
      <<<<112, 114, 111, 120, 121, 45, 97, 117, 116, 104, 101, 110, 116, 105, 99, 97, 116, 101>>, <<>>>>,  \* 48 proxy-authenticate
      <<<<112, 114, 111, 120, 121, 45, 97, 117, 116, 104, 111, 114, 105, 122, 97, 116, 105, 111, 110>>, <<>>>>,  \* 49 proxy-authorization
      <<<<114, 97, 110, 103, 101>>, <<>>>>,  \* 50 range
      <<<<114, 101, 102, 101, 114, 101, 114>>, <<>>>>,  \* 51 referer
      <<<<114, 101, 102, 114, 101, 115, 104>>, <<>>>>,  \* 52 refresh
      <<<<114, 101, 116, 114, 121, 45, 97, 102, 116, 101, 114>>, <<>>>>,  \* 53 retry-after
      <<<<115, 101, 114, 118, 101, 114>>, <<>>>>,  \* 54 server
      <<<<115, 101, 116, 45, 99, 111, 111, 107, 105, 101>>, <<>>>>,  \* 55 set-cookie
      <<<<115, 116, 114, 105, 99, 116, 45, 116, 114, 97, 110, 115, 112, 111, 114, 116, 45, 115, 101, 99, 117, 114, 105, 116, 121>>, <<>>>>,  \* 56 strict-transport-security
      <<<<116, 114, 97, 110, 115, 102, 101, 114, 45, 101, 110, 99, 111, 100, 105, 110, 103>>, <<>>>>,  \* 57 transfer-encoding
      <<<<117, 115, 101, 114, 45, 97, 103, 101, 110, 116>>, <<>>>>,  \* 58 user-agent
      <<<<118, 97, 114, 121>>, <<>>>>,  \* 59 vary
      <<<<118, 105, 97>>, <<>>>>,  \* 60 via
      <<<<119, 119, 119, 45, 97, 117, 116, 104, 101, 110, 116, 105, 99, 97, 116, 101>>, <<>>>>  \* 61 www-authenticate
    >>

\* buffer[i] used in a bitwise expression: an index outside the buffer reads
\* undefined, which the bitwise operators coerce to 0.
ByteAt(buffer, i) == IF i >= 0 /\ i < Len(buffer) THEN buffer[i + 1] ELSE 0

\* x << m for 0 <= x < 128: the shift count is taken modulo 32 and the result
\* is a signed 32-bit integer, so bits shifted past bit 31 are lost and bit 31
\* is the sign.  (Computed without leaving the 32-bit range.)
ShiftLeft(x, m) ==
    LET k == m % 32
    IN  IF k <= 24 THEN x * (2 ^ k)
        ELSE IF k = 31 THEN (IF x % 2 = 1 THEN (0 - 2147483647) - 1 ELSE 0)
        ELSE LET low == x % (2 ^ (32 - k))
             IN  IF low >= 2 ^ (31 - k)
                 THEN (low - (2 ^ (32 - k))) * (2 ^ k)
                 ELSE low * (2 ^ k)

\* Buffer.prototype.subarray(start, end): negative indexes count from the end,
\* both are clamped to 0..length, and an end before the start gives the empty
\* buffer.
Subarray(buffer, start, end) ==
    LET n  == Len(buffer)
        rs == IF start < 0 THEN (IF n + start < 0 THEN 0 ELSE n + start)
              ELSE IF start > n THEN n ELSE start
        re == IF end < 0 THEN (IF n + end < 0 THEN 0 ELSE n + end)
              ELSE IF end > n THEN n ELSE end
    IN  IF re <= rs THEN <<>> ELSE SubSeq(buffer, rs + 1, re)

\* The do-while loop of decodeInteger: continuation bytes of 7 bits each.
RECURSIVE decodeIntegerLoop(_, _, _, _, _)
decodeIntegerLoop(buffer, offset, value, bytesRead, m) ==
    LET byte == ByteAt(buffer, offset + bytesRead)
        v2   == value + ShiftLeft(byte % 128, m)
    IN  IF byte >= 128
        THEN decodeIntegerLoop(buffer, offset, v2, bytesRead + 1, m + 7)
        ELSE [value |-> v2, bytesRead |-> bytesRead + 1]

decodeInteger(buffer, offset, prefixBits) ==
    LET maxPrefix == (2 ^ prefixBits) - 1
        value     == ByteAt(buffer, offset) % (maxPrefix + 1)
    IN  IF value = maxPrefix
        THEN decodeIntegerLoop(buffer, offset, value, 1, 0)
        ELSE [value |-> value, bytesRead |-> 1]

\* decodeString, given the decoded length prefix: the Huffman flag changes
\* nothing, the bytes are decoded as UTF-8; bytesRead counts the declared
\* length, present or not.
decodeStringOf(buffer, offset, len) ==
    [value     |-> Utf8Decode(Subarray(buffer, offset + len.bytesRead,
                                       offset + len.bytesRead + len.value)),
     bytesRead |-> len.bytesRead + len.value]

decodeString(buffer, offset) == decodeStringOf(buffer, offset, decodeInteger(buffer, offset, 7))

\* getTableEntry: <<>> stands for undefined.
getTableEntry(table, index) ==
    IF index <= 0 THEN <<>>
    ELSE IF index < Len(HPACK_STATIC_TABLE) THEN HPACK_STATIC_TABLE[index + 1]
    ELSE IF index - Len(HPACK_STATIC_TABLE) < Len(table)
    THEN table[index - Len(HPACK_STATIC_TABLE) + 1]
    ELSE <<>>

\* Map.prototype.set on an insertion-ordered map kept as a sequence of
\* <<name, value>>: an existing key keeps its position.
MapSet(m, k, v) ==
    IF \E i \in 1..Len(m) : m[i][1] = k
    THEN [i \in 1..Len(m) |-> IF m[i][1] = k THEN <<k, v>> ELSE m[i]]
    ELSE Append(m, <<k, v>>)

\* A literal field: its name, and its value string read at valueOffset.
literalField(name, valueOffset, valueS) ==
    [name |-> name, value |-> valueS.value, offset |-> valueOffset + valueS.bytesRead]

\* name = entry ? entry[0] : "", then the value string
literalIndexedName(buffer, offset, entry) ==
    literalField(IF entry # <<>> THEN entry[1] ELSE <<>>, offset,
                 decodeString(buffer, offset))

\* the name string, then the value string
literalNewName(buffer, offset, nameS) ==
    literalField(nameS.value, offset + nameS.bytesRead,
                 decodeString(buffer, offset + nameS.bytesRead))

literalAfterIndex(buffer, offset, table, idx) ==
    IF idx.value > 0
    THEN literalIndexedName(buffer, offset + idx.bytesRead, getTableEntry(table, idx.value))
    ELSE literalNewName(buffer, offset + idx.bytesRead,
                        decodeString(buffer, offset + idx.bytesRead))

\* The name and value of a literal field whose name index is read at offset
\* with the given prefix, and the offset after the field.
decodeLiteral(buffer, offset, table, prefixBits) ==
    literalAfterIndex(buffer, offset, table, decodeInteger(buffer, offset, prefixBits))

\* Indexed Header Field: headers.set(entry[0], entry[1]) when the entry exists
fieldIndexed(st, idx) ==
    [offset  |-> st.offset + idx.bytesRead,
     headers |-> IF getTableEntry(st.table, idx.value) # <<>>
                 THEN MapSet(st.headers, getTableEntry(st.table, idx.value)[1],
                             getTableEntry(st.table, idx.value)[2])
                 ELSE st.headers,
     table   |-> st.table]

\* Literal Header Field with dynamicTable.push in place of unshift
fieldLiteral_Pushes(st, lit, indexing) ==
    [offset  |-> lit.offset,
     headers |-> MapSet(st.headers, lit.name, lit.value),
     table   |-> IF indexing THEN Append(st.table, <<lit.name, lit.value>>) ELSE st.table]

\* Literal Header Field: headers.set(name, value); with incremental indexing
\* also dynamicTable.unshift([name, value])
fieldLiteral(st, lit, indexing) ==
    [offset  |-> lit.offset,
     headers |-> MapSet(st.headers, lit.name, lit.value),
     table   |-> IF indexing THEN <<<<lit.name, lit.value>>>> \o st.table ELSE st.table]

\* Dynamic Table Size Update: the table is cleared when the size is 0
fieldSizeUpdate(st, maxSize) ==
    [offset  |-> st.offset + maxSize.bytesRead,
     headers |-> st.headers,
     table   |-> IF maxSize.value = 0 THEN <<>> ELSE st.table]

\* One iteration of the while loop of decodeHeaders, at st.offset <
\* buffer.length, chosen by the top bits of the leading byte (none of them
\* set when the offset is negative and the byte undefined).
decodeField(buffer, st) ==
    IF ByteAt(buffer, st.offset) >= 128
    THEN fieldIndexed(st, decodeInteger(buffer, st.offset, 7))
    ELSE IF (ByteAt(buffer, st.offset) \div 64) % 2 = 1
    THEN fieldLiteral(st, decodeLiteral(buffer, st.offset, st.table, 6), TRUE)
    ELSE IF (ByteAt(buffer, st.offset) \div 32) % 2 = 1
    THEN fieldSizeUpdate(st, decodeInteger(buffer, st.offset, 5))
    ELSE fieldLiteral(st, decodeLiteral(buffer, st.offset, st.table, 4), FALSE)

\* The loop runs while offset < buffer.length; steps bounds the unrolling
\* (a field whose length goes negative may move the offset backwards).
RECURSIVE decodeHeadersLoop(_, _, _)
decodeHeadersLoop(buffer, st, steps) ==
    IF ~(st.offset < Len(buffer))
    THEN [headers |-> st.headers, table |-> st.table, terminated |-> TRUE]
    ELSE IF steps = 0 \/ st.offset < 0
    THEN [headers |-> st.headers, table |-> st.table, terminated |-> FALSE]
    ELSE decodeHeadersLoop(buffer, decodeField(buffer, st), steps - 1)

\* decodeHeaders(buffer) on a decoder whose dynamic table is table: the
\* decoded map and the table it leaves behind.
decodeHeaders(buffer, table) ==
    decodeHeadersLoop(buffer, [offset |-> 0, headers |-> <<>>, table |-> table],
                      Len(buffer) + 1)

(***************************************************************************)
(* HPACK encoder (src/unnamed/part_002, class HpackEncoder)                *)
(***************************************************************************)
\* a | b of two non-negative integers
RECURSIVE BitOr(_, _)
BitOr(a, b) ==
    IF a = 0 THEN b
    ELSE IF b = 0 THEN a
    ELSE (IF a % 2 = 1 \/ b % 2 = 1 THEN 1 ELSE 0) + (2 * BitOr(a \div 2, b \div 2))

\* Buffer.from([n]): the byte n & 255
ByteOf(n) == n % 256

\* The while loop of encodeInteger: 7 bits a byte, the last without bit 7.
RECURSIVE encodeIntegerLoop(_, _)
encodeIntegerLoop(value, result) ==
    IF value >= 128
    THEN encodeIntegerLoop(value \div 128, Append(result, ByteOf((value % 128) + 128)))
    ELSE Append(result, ByteOf(value))

\* HpackEncoder.encodeInteger(value, prefixBits, prefixValue)
encodeInteger(value, prefixBits, prefixValue) ==
    LET maxPrefix == (2 ^ prefixBits) - 1
    IN  IF value < maxPrefix
        THEN <<ByteOf(BitOr(prefixValue, value))>>
        ELSE encodeIntegerLoop(value - maxPrefix,
                               <<ByteOf(BitOr(prefixValue, maxPrefix))>>)

\* HpackEncoder.encodeString(str, false): the length of the UTF-8 bytes with
\* a 7-bit prefix and H = 0, then the bytes.
encodeString(str) ==
    encodeInteger(Len(Utf8Encode(str)), 7, 0) \o Utf8Encode(str)

\* The entries i of the static table, 1 <= i < length.
StaticIndexes == 1..(Len(HPACK_STATIC_TABLE) - 1)

\* HpackEncoder.findStaticTableIndex(name): the first entry with the name in
\* lower case, or 0.
findStaticTableIndex(name) ==
    LET hits == { i \in StaticIndexes :
                    HPACK_STATIC_TABLE[i + 1][1] = ToLowerCase(name) }
    IN  IF hits = {} THEN 0 ELSE Min(hits)

\* HpackEncoder.findStaticTableExactIndex(name, value)
findStaticTableExactIndex(name, value) ==
    LET hits == { i \in StaticIndexes :
                    /\ HPACK_STATIC_TABLE[i + 1][1] = ToLowerCase(name)
                    /\ HPACK_STATIC_TABLE[i + 1][2] = value }
    IN  IF hits = {} THEN 0 ELSE Min(hits)

\* What encodeHeadersLiteral pushes for a header whose name has static index
\* staticIndex (0: none): the byte 0x00 | staticIndex and the value, or the
\* byte 0, the name and the value.
literalWithoutIndexing(staticIndex, name, value) ==
    IF staticIndex > 0
    THEN <<ByteOf(BitOr(0, staticIndex))>> \o encodeString(value)
    ELSE <<ByteOf(0)>> \o encodeString(name) \o encodeString(value)

\* HpackEncoder.encodeHeadersLiteral(headers), from entry i of the Map on.
RECURSIVE encodeHeadersLiteralFrom(_, _)
encodeHeadersLiteralFrom(map, i) ==
    IF i > Len(map) THEN <<>>
    ELSE literalWithoutIndexing(findStaticTableIndex(map[i][1]), map[i][1], map[i][2])
             \o encodeHeadersLiteralFrom(map, i + 1)

encodeHeadersLiteral(map) == encodeHeadersLiteralFrom(map, 1)

\* What encodeHeaders pushes for a header: the index of an exact match
\* (1xxxxxxx), else the name index (01xxxxxx) and the value, else 0x40, the
\* name and the value.
indexedOrLiteral(exactIndex, nameIndex, name, value) ==
    IF exactIndex > 0
    THEN encodeInteger(exactIndex, 7, 128)
    ELSE IF nameIndex > 0
    THEN encodeInteger(nameIndex, 6, 64) \o encodeString(value)
    ELSE <<ByteOf(64)>> \o encodeString(name) \o encodeString(value)

\* HpackEncoder.encodeHeaders(headers), from entry i of the Map on.
RECURSIVE encodeHeadersFrom(_, _)
encodeHeadersFrom(map, i) ==
    IF i > Len(map) THEN <<>>
    ELSE indexedOrLiteral(findStaticTableExactIndex(map[i][1], map[i][2]),
                          findStaticTableIndex(map[i][1]), map[i][1], map[i][2])
             \o encodeHeadersFrom(map, i + 1)

encodeHeaders(map) == encodeHeadersFrom(map, 1)

(***************************************************************************)
(* HTTP/2 frame parser (src/unnamed/part_002, class Http2FrameParser)      *)
(***************************************************************************)
FrameTypeDATA == 0

FrameTypeHEADERS == 1

FlagEND_STREAM == 1

FlagEND_HEADERS == 4

FlagPADDED == 8

FlagPRIORITY == 32

\* flags & bit, for a single-bit mask
HasFlag(flags, bit) == (flags \div bit) % 2 = 1

\* buffer.readUIntBE(offset, 3)
ReadUInt24BE(buffer, offset) ==
    buffer[offset + 1] * 65536 + buffer[offset + 2] * 256 + buffer[offset + 3]

\* buffer.readUInt32BE(offset) & 0x7fffffff: the low 31 bits
ReadUInt31BE(buffer, offset) ==
    (buffer[offset + 1] % 128) * 16777216 + buffer[offset + 2] * 65536
      + buffer[offset + 3] * 256 + buffer[offset + 4]

\* buffer.readUInt32BE(offset) & 0x80000000 is not zero: the top bit
ReadTopBit(buffer, offset) == buffer[offset + 1] >= 128

\* parseFrame without the test that the whole payload is there
parseFrame_AnyPayload(buffer, offset) ==
    IF Len(buffer) - offset < 9
    THEN [isNull |-> TRUE, frame |-> <<>>, bytesRead |-> 0]
    ELSE LET length   == ReadUInt24BE(buffer, offset)
             type     == buffer[offset + 4]
             flags    == buffer[offset + 5]
             streamId == ReadUInt31BE(buffer, offset + 5)
         IN  [isNull    |-> FALSE,
              frame     |-> [length |-> length, type |-> type, flags |-> flags,
                             streamId |-> streamId,
                             payload |-> Subarray(buffer, offset + 9,
                                                  offset + 9 + length)],
              bytesRead |-> 9 + length]

\* parseFrame(buffer, offset): isNull = TRUE stands for null.
parseFrame(buffer, offset) ==
    IF Len(buffer) - offset < 9
    THEN [isNull |-> TRUE, frame |-> <<>>, bytesRead |-> 0]
    ELSE LET length   == ReadUInt24BE(buffer, offset)
             type     == buffer[offset + 4]
             flags    == buffer[offset + 5]
             streamId == ReadUInt31BE(buffer, offset + 5)
         IN  IF Len(buffer) - offset < 9 + length
             THEN [isNull |-> TRUE, frame |-> <<>>, bytesRead |-> 0]
             ELSE [isNull    |-> FALSE,
                   frame     |-> [length |-> length, type |-> type, flags |-> flags,
                                  streamId |-> streamId,
                                  payload |-> Subarray(buffer, offset + 9,
                                                       offset + 9 + length)],
                   bytesRead |-> 9 + length]

RECURSIVE parseAllFramesLoop(_, _, _)
parseAllFramesLoop(buffer, offset, frames) ==
    IF ~(offset < Len(buffer)) THEN frames
    ELSE LET result == parseFrame(buffer, offset)
         IN  IF result.isNull THEN frames
             ELSE parseAllFramesLoop(buffer, offset + result.bytesRead,
                                     Append(frames, result.frame))

parseAllFrames(buffer) == parseAllFramesLoop(buffer, 0, <<>>)

\* The result of parseHeadersPayload once the header block dec is decoded.
headersPayloadResult(frame, off1, prio, dec) ==
    [threw |-> FALSE, headers |-> dec.headers, hasPriority |-> prio,
     priority |-> IF prio
                  THEN [exclusive  |-> ReadTopBit(frame.payload, off1),
                        dependency |-> ReadUInt31BE(frame.payload, off1),
                        weight     |-> frame.payload[off1 + 5] + 1]
                  ELSE <<>>,
     table |-> dec.table]

\* parseHeadersPayload(frame) with the decoder's table: threw = TRUE when a
\* readUInt8/readUInt32BE reads outside the payload (RangeError).
parseHeadersPayload(frame, table) ==
    LET padded == HasFlag(frame.flags, FlagPADDED)
        prio   == HasFlag(frame.flags, FlagPRIORITY)
        n      == Len(frame.payload)
        off1   == IF padded THEN 1 ELSE 0
        padLength == IF padded THEN frame.payload[1] ELSE 0
    IN  IF (padded /\ n < 1) \/ (prio /\ n < off1 + 5)
        THEN [threw |-> TRUE, headers |-> <<>>, hasPriority |-> FALSE,
              priority |-> <<>>, table |-> table]
        ELSE headersPayloadResult(frame, off1, prio,
                 decodeHeaders(Subarray(frame.payload,
                                        IF prio THEN off1 + 5 ELSE off1,
                                        n - padLength),
                               table))

\* ":status"
StrStatus == <<58, 115, 116, 97, 116, 117, 115>>

\* parseInt(value, 10): leading white space, an optional sign, then the
\* longest run of digits; NaN when there is no digit.
ParseIntJS(s) ==
    LET ws   == SpanSpace(s, 0)
        sign == IF ws < Len(s) /\ s[ws + 1] \in {43, 45} THEN 1 ELSE 0
        d    == SpanDigit(s, ws + sign)
        mag  == ParseInt(Substring(s, ws + sign, ws + sign + d))
    IN  IF d = 0 THEN [isNaN |-> TRUE, value |-> 0]
        ELSE [isNaN |-> FALSE,
              value |-> IF sign = 1 /\ s[ws + 1] = 45 THEN 0 - mag ELSE mag]

\* The loop of extractResponse over the decoded header map.
RECURSIVE responseHeaders(_, _, _)
responseHeaders(headerMap, i, acc) ==
    IF i > Len(headerMap) THEN acc
    ELSE LET name  == headerMap[i][1]
             value == headerMap[i][2]
         IN  IF name = StrStatus
             THEN responseHeaders(headerMap, i + 1,
                                  [acc EXCEPT !.statusCode = ParseIntJS(value)])
             ELSE IF ~(Len(name) >= 1 /\ name[1] = 58)
             THEN responseHeaders(headerMap, i + 1,
                                  [acc EXCEPT !.headers = HeaderAdd(@, name, value)])
             ELSE responseHeaders(headerMap, i + 1, acc)

RECURSIVE ConcatPayloads(_)
ConcatPayloads(frames) ==
    IF frames = <<>> THEN <<>> ELSE Head(frames).payload \o ConcatPayloads(Tail(frames))

IsHeadersFrame(f) == f.type = FrameTypeHEADERS

IsDataFrame(f) == f.type = FrameTypeDATA

\* The record extractResponse returns, from the converted headers acc.
responseRecord(streamFrames, streamId, acc) ==
    [streamId   |-> streamId,
     statusCode |-> acc.statusCode,
     headers    |-> acc.headers,
     body       |-> ConcatPayloads(SelectSeq(streamFrames, IsDataFrame)),
     frames     |-> streamFrames]

\* extractResponse after parseHeadersPayload(headersFrame) returned or threw.
responseFromHeaders(streamFrames, streamId, parsed) ==
    IF parsed.threw
    THEN [isNull |-> FALSE, threw |-> TRUE, response |-> <<>>, table |-> parsed.table]
    ELSE [isNull |-> FALSE, threw |-> FALSE,
          response |-> responseRecord(streamFrames, streamId,
                           responseHeaders(parsed.headers, 1,
                               [statusCode |-> [isNaN |-> FALSE, value |-> 200],
                                headers |-> <<>>])),
          table |-> parsed.table]

\* extractResponse once streamFrames is filtered: null without a HEADERS frame.
responseFromStream(streamFrames, streamId, table) ==
    IF SelectSeq(streamFrames, IsHeadersFrame) = <<>>
    THEN [isNull |-> TRUE, threw |-> FALSE, response |-> <<>>, table |-> table]
    ELSE responseFromHeaders(streamFrames, streamId,
             parseHeadersPayload(Head(SelectSeq(streamFrames, IsHeadersFrame)), table))

\* extractResponse(frames, streamId) with the decoder's table: isNull when
\* there is no HEADERS frame, threw when parseHeadersPayload throws.
extractResponse(frames, streamId, table) ==
    LET InStream(f) == f.streamId = streamId \/ f.streamId = 0
    IN  responseFromStream(SelectSeq(frames, InStream), streamId, table)

(***************************************************************************)
(* Network sends: RawHttp.sendRaw, sendRawWithMultiResponse (pipelined),   *)
(* sendViaProxy / sendViaHttpProxy (src/src/client.ts) and                 *)
(* Http2Client.sendRequest, sendRawFrames (src/unnamed/part_002).          *)
(* Each send is one promise; op holds the variables its executor closes    *)
(* over, the state of its connection and timer in the runtime, and what    *)
(* it did to the outside: the socket writes, the socket.end() calls and    *)
(* the calls to the promise's resolve and reject.  Sends share nothing but *)
(* the HPACK decoder of the Http2Client, which a send touches only inside  *)
(* resolveOnce, so the model follows one send at a time: the next send is  *)
(* called once the one before it has completed.                            *)
(***************************************************************************)
MaxSends == 2

MaxData == 2

MaxRequests == 2

MaxLate == 1

defaultTimeout == 30000

Kinds == {"sendRaw", "sendPipelined", "sendViaProxy", "sendRequest", "sendRawFrames"}

\* "HTTP/1.1 200 OK\r\nContent-Length: 2\r\n\r\nab"
RespContentLength ==
    <<72, 84, 84, 80, 47, 49, 46, 49, 32, 50, 48, 48, 32, 79, 75, 13, 10, 67, 111, 110,
      116, 101, 110, 116, 45, 76, 101, 110, 103, 116, 104, 58, 32, 50, 13, 10, 13, 10,
      97, 98>>

\* "HTTP/1.1 404 NF\r\n\r\n"
RespNoBody ==
    <<72, 84, 84, 80, 47, 49, 46, 49, 32, 52, 48, 52, 32, 78, 70, 13, 10, 13, 10>>

\* "HTTP/1.1 200 OK\r\nTransfer-Encoding: chunked\r\n\r\n1\r\na\r\n0\r\n\r\n"
RespChunked ==
    <<72, 84, 84, 80, 47, 49, 46, 49, 32, 50, 48, 48, 32, 79, 75, 13, 10, 84, 114, 97,
      110, 115, 102, 101, 114, 45, 69, 110, 99, 111, 100, 105, 110, 103, 58, 32, 99,
      104, 117, 110, 107, 101, 100, 13, 10, 13, 10, 49, 13, 10, 97, 13, 10, 48, 13, 10,
      13, 10>>

\* "HTTP/1.1 200 OK\r\n\r\n"
ProxyReply200 ==
    <<72, 84, 84, 80, 47, 49, 46, 49, 32, 50, 48, 48, 32, 79, 75, 13, 10, 13, 10>>

\* "HTTP/1.1 407 Auth\r\n\r\n"
ProxyReply407 ==
    <<72, 84, 84, 80, 47, 49, 46, 49, 32, 52, 48, 55, 32, 65, 117, 116, 104, 13, 10, 13,
      10>>

\* "HTTP/1.1 502 Bad\r\n\r\n"
ProxyReply502 ==
    <<72, 84, 84, 80, 47, 49, 46, 49, 32, 53, 48, 50, 32, 66, 97, 100, 13, 10, 13, 10>>

\* "HTTP/1.1 502 Bad\r\nContent-Length: 200\r\n\r\n"
ProxyReply502Length200 ==
    <<72, 84, 84, 80, 47, 49, 46, 49, 32, 53, 48, 50, 32, 66, 97, 100, 13, 10, 67, 111,
      110, 116, 101, 110, 116, 45, 76, 101, 110, 103, 116, 104, 58, 32, 50, 48, 48, 13,
      10, 13, 10>>

\* HEADERS, END_HEADERS, stream 1: ":status: 200" indexed (0x88), then the
\* literal with incremental indexing "a: b" (0x40 0x01 'a' 0x01 'b')
FrameHeadersLiteral == <<0, 0, 6, 1, 4, 0, 0, 0, 1, 136, 64, 1, 97, 1, 98>>

\* HEADERS, END_HEADERS, stream 1: the indexed field 62 (0xBE), the first
\* entry of the dynamic table
FrameHeadersIndexed == <<0, 0, 1, 1, 4, 0, 0, 0, 1, 190>>

\* DATA, END_STREAM, stream 1, payload "x"
FrameData == <<0, 0, 1, 0, 1, 0, 0, 0, 1, 120>>

HttpChunks == {RespContentLength, RespNoBody, RespChunked}

\* The chunks a peer may deliver to a send of the given kind.
ChunksFor(kind) ==
    IF kind \in {"sendRequest", "sendRawFrames"}
    THEN {FrameHeadersLiteral, FrameHeadersIndexed, FrameData}
    ELSE IF kind = "sendViaProxy"
    THEN {ProxyReply200, ProxyReply407, ProxyReply502, ProxyReply502Length200,
          RespNoBody}
    ELSE HttpChunks

\* The arguments of a send: the callee, the target protocol, whether TLS
\* options were given, the proxy protocol and the number of pipelined requests.
SendArgs ==
    [kind : {"sendRaw", "sendRequest", "sendRawFrames"}, protocol : {"http"},
     tls : {FALSE}, proxyProtocol : {"none"}, expectedResponses : {1}]
    \cup
    [kind : {"sendPipelined"}, protocol : {"http"}, tls : {FALSE},
     proxyProtocol : {"none"}, expectedResponses : 1..MaxRequests]
    \cup
    { a \in [kind : {"sendViaProxy"}, protocol : {"http", "https"}, tls : BOOLEAN,
             proxyProtocol : {"http", "socks4", "socks5"},
             expectedResponses : {1}] :
        a.tls => a.protocol = "https" }

NoArgs ==
    [kind |-> "none", protocol |-> "http", tls |-> FALSE, proxyProtocol |-> "none",
     expectedResponses |-> 0]

\* A send that has not been called yet.  chunks counts the chunks delivered
\* and reply keeps the first of them.
IdleOp ==
    [phase             |-> "idle",
     args              |-> NoArgs,
     resolved          |-> FALSE,
     timeoutId         |-> FALSE,
     timerPending      |-> FALSE,
     socket            |-> FALSE,
     tunnelEstablished |-> FALSE,
     responseData      |-> <<>>,
     chunks            |-> 0,
     reply             |-> <<>>,
     link              |-> "none",
     writes            |-> <<>>,
     ended             |-> 0,
     completions       |-> <<>>,
     late              |-> 0]

Resolved(value) == [type |-> "resolve", error |-> "", detail |-> <<>>, value |-> value]

Rejected(error, detail) ==
    [type |-> "reject", error |-> error, detail |-> detail, value |-> <<>>]

\* cleanup() without clearTimeout
cleanup_KeepsTimer(r) ==
    [r EXCEPT !.ended = IF r.socket THEN @ + 1 ELSE @]

\* cleanup(): clear the timer when timeoutId is set, end the socket when the
\* socket variable is set.
cleanup(r) ==
    [r EXCEPT !.timerPending = IF r.timeoutId THEN FALSE ELSE @,
              !.timeoutId = FALSE,
              !.ended = IF r.socket THEN @ + 1 ELSE @]

\* A call of resolveOnce or rejectOnce that finds resolved already set.
Ignored(r) == [r EXCEPT !.late = IF @ < MaxLate THEN @ + 1 ELSE @]

\* resolveOnce(response) of sendRaw, sendRawWithMultiResponse and
\* sendViaHttpProxy
resolveOnce(r, response) ==
    IF ~r.resolved
    THEN [cleanup([r EXCEPT !.resolved = TRUE])
            EXCEPT !.completions = Append(@, Resolved(response))]
    ELSE Ignored(r)

\* rejectOnce(error) without the test of resolved
rejectOnce_Unguarded(r, error, detail) ==
    [cleanup([r EXCEPT !.resolved = TRUE])
        EXCEPT !.completions = Append(@, Rejected(error, detail))]

\* rejectOnce(error), the same in the five sends
rejectOnce(r, error, detail) ==
    IF ~r.resolved
    THEN [cleanup([r EXCEPT !.resolved = TRUE])
            EXCEPT !.completions = Append(@, Rejected(error, detail))]
    ELSE Ignored(r)

\* The rest of resolveOnce(data) of sendRequest after cleanup(), x being the
\* outcome of extractResponse: an exception leaves the promise unsettled, null
\* rejects, a response resolves.
settleRequest(r, data, x) ==
    [op    |-> IF x.threw THEN r
               ELSE IF x.isNull
               THEN [r EXCEPT !.completions =
                       Append(@, Rejected("Failed to parse HTTP/2 response", <<>>))]
               ELSE [r EXCEPT !.completions =
                       Append(@, Resolved([response |-> x.response, rawBuffer |-> data]))],
     table |-> x.table]

\* resolveOnce(data) of Http2Client.sendRequest, on a client whose decoder
\* holds table: the new closure state and the table left behind.
resolveOnceRequest(r, data, table) ==
    IF ~r.resolved
    THEN settleRequest(cleanup([r EXCEPT !.resolved = TRUE]), data,
                       extractResponse(parseAllFrames(data), 1, table))
    ELSE [op |-> Ignored(r), table |-> table]

\* resolveOnce(data) of Http2Client.sendRawFrames
resolveOnceRawFrames(r, data) ==
    IF ~r.resolved
    THEN [cleanup([r EXCEPT !.resolved = TRUE])
            EXCEPT !.completions =
                Append(@, Resolved([frames |-> parseAllFrames(data), rawBuffer |-> data]))]
    ELSE Ignored(r)

\* What the end and close handlers do: complete with the parsed response
\* data; on the proxied path only once the tunnel is established.
onEndOrClose(r, table) ==
    IF r.args.kind = "sendRaw"
    THEN [op |-> resolveOnce(r, ResponseParser_parse(r.responseData)), table |-> table]
    ELSE IF r.args.kind = "sendPipelined"
    THEN [op |-> resolveOnce(r, parseMultipleResponses(r.responseData,
                                                        r.args.expectedResponses)),
          table |-> table]
    ELSE IF r.args.kind = "sendViaProxy"
    THEN [op |-> IF r.tunnelEstablished
                 THEN resolveOnce(r, ResponseParser_parse(r.responseData))
                 ELSE r,
          table |-> table]
    ELSE IF r.args.kind = "sendRequest"
    THEN resolveOnceRequest(r, r.responseData, table)
    ELSE [op |-> resolveOnceRawFrames(r, r.responseData), table |-> table]

\* The open handler: keep the socket, write the request (the CONNECT request
\* on the proxied path).
onOpen(r) ==
    [r EXCEPT !.socket = TRUE,
              !.writes = Append(@, IF r.args.kind = "sendViaProxy"
                                   THEN "connectRequest" ELSE "data")]

\* "200"
Str200 == <<50, 48, 48>>

\* "407"
Str407 == <<52, 48, 55>>

\* response.split("\r\n")[0]
FirstLine(s) ==
    LET i == IndexOf(s, <<13, 10>>, 0)
    IN  IF i = -1 THEN s ELSE Substring(s, 0, i)

\* The data handler of sendViaHttpProxy, keeping the chunk that establishes
\* the tunnel as response data
onProxyData_KeepsReply(r, chunk) ==
    IF ~r.tunnelEstablished
    THEN IF Includes(chunk, Str200)
         THEN LET r1 == [r EXCEPT !.tunnelEstablished = TRUE,
                                  !.responseData = @ \o chunk]
              IN  IF r.args.protocol = "https" /\ r.args.tls
                  THEN rejectOnce(r1,
                         "HTTPS through HTTP proxy requires TLS upgrade which is not fully supported. Consider using direct connection.",
                         <<>>)
                  ELSE [r1 EXCEPT !.writes = Append(@, "data")]
         ELSE IF Includes(chunk, Str407)
         THEN rejectOnce(r, "Proxy authentication required", <<>>)
         ELSE rejectOnce(r, "Proxy CONNECT failed: ", FirstLine(chunk))
    ELSE [r EXCEPT !.responseData = @ \o chunk]

\* The data handler of sendViaHttpProxy.
onProxyData(r, chunk) ==
    IF ~r.tunnelEstablished
    THEN IF Includes(chunk, Str200)
         THEN LET r1 == [r EXCEPT !.tunnelEstablished = TRUE]
              IN  IF r.args.protocol = "https" /\ r.args.tls
                  THEN rejectOnce(r1,
                         "HTTPS through HTTP proxy requires TLS upgrade which is not fully supported. Consider using direct connection.",
                         <<>>)
                  ELSE [r1 EXCEPT !.writes = Append(@, "data")]
         ELSE IF Includes(chunk, Str407)
         THEN rejectOnce(r, "Proxy authentication required", <<>>)
         ELSE rejectOnce(r, "Proxy CONNECT failed: ", FirstLine(chunk))
    ELSE [r EXCEPT !.responseData = @ \o chunk]

\* The data handler of a send.
onData_Prepends(r, chunk) ==
    IF r.args.kind = "sendViaProxy" THEN onProxyData(r, chunk)
    ELSE [r EXCEPT !.responseData = chunk \o @]

onData(r, chunk) ==
    IF r.args.kind = "sendViaProxy" THEN onProxyData(r, chunk)
    ELSE [r EXCEPT !.responseData = @ \o chunk]

\* The prefix of the message of the error handler.
SocketErrorPrefix(kind) ==
    IF kind = "sendViaProxy" THEN "Proxy socket error: " ELSE "Socket error: "

ConnectErrorPrefix(kind) ==
    IF kind = "sendViaProxy" THEN "Proxy connection error: " ELSE "Connection error: "

\* error.message of the error the runtime reports
ErrMessage == <<69, 82, 82>>

\* sendViaProxy: which proxied sends reach sendViaHttpProxy; the others throw.
proxyRoute(args) ==
    IF args.protocol = "https" \/ args.proxyProtocol = "http" THEN "http-proxy"
    ELSE IF args.proxyProtocol \in {"socks4", "socks5"} THEN "throw"
    ELSE "http-proxy"

\* A send can be called when no send is in progress.
CanStart ==
    /\ sends < MaxSends
    /\ op.phase = "idle" \/ op.resolved \/ op.completions # <<>>

\* The call of a send: arm the timer, start connecting.  A proxied send that
\* sendViaProxy refuses rejects at once, before any timer or connection.
Start(a) ==
    /\ CanStart
    /\ op' = IF a.kind = "sendViaProxy" /\ proxyRoute(a) = "throw"
             THEN [IdleOp EXCEPT !.phase = "started", !.args = a,
                     !.completions = <<Rejected(
                       "SOCKS proxy support not yet implemented. Use HTTP proxy or direct connection.",
                       <<>>)>>]
             ELSE [IdleOp EXCEPT !.phase = "started", !.args = a,
                                 !.timeoutId = TRUE, !.timerPending = TRUE,
                                 !.link = "connecting"]
    /\ sends' = sends + 1
    /\ UNCHANGED dynamicTable
    /\ UNCHANGED notSendVars

\* The connection is established: the open handler runs.
Open ==
    /\ op.link = "connecting"
    /\ op' = [onOpen(op) EXCEPT !.link = "open"]
    /\ UNCHANGED <<sends, dynamicTable>>
    /\ UNCHANGED notSendVars

\* An inbound chunk is delivered: the data handler runs.
Data(chunk) ==
    /\ op.link = "open"
    /\ op.chunks < MaxData
    /\ op' = [onData(op, chunk) EXCEPT !.chunks = @ + 1,
                                        !.reply = IF op.chunks = 0 THEN chunk ELSE @]
    /\ UNCHANGED <<sends, dynamicTable>>
    /\ UNCHANGED notSendVars

\* The state after an end or close handler returned x.
Completion(x, link) ==
    /\ op' = [x.op EXCEPT !.link = link]
    /\ dynamicTable' = x.table
    /\ UNCHANGED sends
    /\ UNCHANGED notSendVars

\* The peer ends the stream: the end handler runs.
End ==
    /\ op.link \in {"open", "closed"}
    /\ Completion(onEndOrClose(op, dynamicTable), op.link)

\* The socket closes: the close handler runs.
Close ==
    /\ op.link \in {"open", "closed"}
    /\ Completion(onEndOrClose(op, dynamicTable), "closed")

\* The socket reports an error: the error handler runs.
SocketError ==
    /\ op.link \in {"open", "closed"}
    /\ op' = rejectOnce(op, SocketErrorPrefix(op.args.kind), ErrMessage)
    /\ UNCHANGED <<sends, dynamicTable>>
    /\ UNCHANGED notSendVars

\* The connection attempt fails: the connectError handler runs.
ConnectError ==
    /\ op.link \in {"connecting", "failed"}
    /\ op' = [rejectOnce(op, ConnectErrorPrefix(op.args.kind), ErrMessage)
                EXCEPT !.link = "failed"]
    /\ UNCHANGED <<sends, dynamicTable>>
    /\ UNCHANGED notSendVars

\* The promise of Bun.connect rejects: .catch(rejectOnce) runs with the
\* runtime's error.
ConnectRejected ==
    /\ op.link \in {"connecting", "failed"}
    /\ op' = [rejectOnce(op, "", ErrMessage) EXCEPT !.link = "failed"]
    /\ UNCHANGED <<sends, dynamicTable>>
    /\ UNCHANGED notSendVars

\* The message of the timer callback, its ${timeout} carried apart
TimeoutMessage == "Connection timeout after <timeout>ms"

\* The timer expires: its callback runs.
Timer ==
    /\ op.timerPending
    /\ op' = rejectOnce([op EXCEPT !.timerPending = FALSE],
                        TimeoutMessage, <<defaultTimeout>>)
    /\ UNCHANGED <<sends, dynamicTable>>
    /\ UNCHANGED notSendVars

InitSend ==
    /\ op = IdleOp
    /\ sends = 0
    /\ dynamicTable = <<>>

(***************************************************************************)
(* The pipelined splitter on the concatenation of whole responses          *)
(***************************************************************************)
MaxInbound == 3

\* "HTTP/1.1 200 OK\r\nContent-Length: 2\r\n\r\n" and the two bytes C3 A9
RespContentLengthUtf8 ==
    <<72, 84, 84, 80, 47, 49, 46, 49, 32, 50, 48, 48, 32, 79, 75, 13, 10, 67, 111, 110,
      116, 101, 110, 116, 45, 76, 101, 110, 103, 116, 104, 58, 32, 50, 13, 10, 13, 10,
      195, 169>>

\* "HTTP/1.1 200 OK\r\nTransfer-Encoding: chunked\r\n\r\n5\r\n0\r\n\r\n\r\n0\r\n\r\n":
\* one chunk whose five bytes of data are "0\r\n\r\n"
RespChunkedZeroData ==
    <<72, 84, 84, 80, 47, 49, 46, 49, 32, 50, 48, 48, 32, 79, 75, 13, 10, 84, 114, 97,
      110, 115, 102, 101, 114, 45, 69, 110, 99, 111, 100, 105, 110, 103, 58, 32, 99,
      104, 117, 110, 107, 101, 100, 13, 10, 13, 10, 53, 13, 10, 48, 13, 10, 13, 10, 13,
      10, 48, 13, 10, 13, 10>>

\* "HTTP/1.1 204 NC\n\n"
RespLfNoBody ==
    <<72, 84, 84, 80, 47, 49, 46, 49, 32, 50, 48, 52, 32, 78, 67, 10, 10>>

\* "HTTP/1.1 200 OK\r\nContent-Length: 0\r\n\r\n"
RespContentLengthZero ==
    <<72, 84, 84, 80, 47, 49, 46, 49, 32, 50, 48, 48, 32, 79, 75, 13, 10, 67, 111, 110,
      116, 101, 110, 116, 45, 76, 101, 110, 103, 116, 104, 58, 32, 48, 13, 10, 13, 10>>

\* Responses delimited by Content-Length, by chunked encoding ending in
\* "0\r\n\r\n", or without body.
Originals ==
    {RespContentLength, RespNoBody, RespChunked, RespContentLengthUtf8,
     RespChunkedZeroData, RespLfNoBody, RespContentLengthZero}

RECURSIVE ConcatAll(_)
ConcatAll(buffers) ==
    IF buffers = <<>> THEN <<>> ELSE Head(buffers) \o ConcatAll(Tail(buffers))

\* A pipelined send of one more request than before, whose peer answers every
\* request with one of the responses and ends: the end handler splits the
\* accumulated data.
ReceiveAll(r) ==
    /\ Len(inbound) < MaxInbound
    /\ inbound' = Append(inbound, r)
    /\ split' = parseMultipleResponses(ConcatAll(Append(inbound, r)), Len(inbound) + 1)
    /\ UNCHANGED <<sendVars, poolVars, builderVars, hpackVars, frameVars, parseVars,
                   timingVars, codecVars>>

NextSplit == \E r \in Originals : ReceiveAll(r)

InitSplit ==
    /\ inbound = <<>>
    /\ split = <<>>
    /\ op = IdleOp
    /\ sends = 0
    /\ dynamicTable = <<>>
    /\ pool = <<>>
    /\ arrays = <<>>
    /\ conn = <<>>
    /\ proc = <<>>
    /\ now = 0
    /\ builders = <<>>
    /\ headerArrays = <<>>
    /\ built = NoBuild
    /\ calls = 0
    /\ hpackHeaders = <<>>
    /\ encoded = NotEncoded
    /\ frameCall = <<>>
    /\ h2send = <<>>
    /\ h2frames = <<>>
    /\ h2response = <<>>
    /\ parseInput = <<>>
    /\ parseOutput = <<>>
    /\ timed = <<>>
    /\ decoderLog = <<>>
    /\ framing = <<>>

SpecSplit == InitSplit /\ [][NextSplit]_vars

RECURSIVE ConcatRaw(_)
ConcatRaw(responses) ==
    IF responses = <<>> THEN <<>>
    ELSE Head(responses).raw \o ConcatRaw(Tail(responses))

\* C11: when the inbound buffer is the concatenation of N responses, each
\* delimited by Content-Length, by chunked encoding or bodiless, the splitter
\* returns N responses, their raw texts concatenated are the text of the
\* buffer, and each is the parse of the corresponding original.
C11_SplitsIntoOriginals ==
    /\ Len(split) = Len(inbound)
    /\ ConcatRaw(split) = Utf8Decode(ConcatAll(inbound))
    /\ \A i \in 1..Len(inbound) :
          i <= Len(split) => split[i] = ResponseParser_parse(inbound[i])

(***************************************************************************)
(* Properties of the sends                                                 *)
(***************************************************************************)
Completed == op.completions # <<>>

Outcome == Head(op.completions)

\* C1: a send completes at most once: whatever events are delivered, in any
\* order and any number of times, its promise is settled at most one time, and
\* no later event of that send changes the settlement.
C1_CompletesAtMostOnce ==
    /\ [](Len(op.completions) <= 1)
    /\ [][(Completed /\ sends' = sends) => op'.completions = op.completions]_vars

\* A send has completed and a further completing event was then delivered and
\* ignored.
C1_LateEventIgnored == Len(op.completions) = 1 /\ op.late >= 1

\* C2: when the timer of a send expires before the send has completed, the
\* send fails with the timeout message and its socket is closed, also when the
\* timer expires before the open event: a send that failed with the timeout
\* has no connection that is open and was never ended.
C2_TimeoutClosesSocket ==
    (Completed /\ Outcome.type = "reject" /\ Outcome.error = TimeoutMessage)
        => ~(op.link = "open" /\ op.ended = 0)

\* The response a sendRequest on a client that has performed no other send
\* returns for the bytes data.
responseOfFreshClient(data) == extractResponse(parseAllFrames(data), 1, <<>>).response

\* C8: the result of a send is determined by its arguments and the bytes it
\* received, whatever sends the client performed before: a resolved sendRequest
\* returns the response a client without earlier sends returns for the same
\* bytes.
C8_ResultIndependentOfEarlierSends ==
    (Completed /\ Outcome.type = "resolve" /\ op.args.kind = "sendRequest")
        => Outcome.value.response = responseOfFreshClient(Outcome.value.rawBuffer)

\* C9: on every exit path the socket of a send is ended at most once, and the
\* timer is no longer pending once the send has completed.
C9_EndedOnceTimerCancelled ==
    /\ op.ended <= 1
    /\ Completed => ~op.timerPending

\* A send resolved from its end or close handler, with its socket ended once,
\* and a later completing event was ignored.
C9_ResolvedThenLateEvent ==
    /\ Completed
    /\ Outcome.type = "resolve"
    /\ op.ended = 1
    /\ op.late >= 1
    /\ sends = MaxSends

\* "SOCKS proxy support not yet implemented. ..."
SocksMessage ==
    "SOCKS proxy support not yet implemented. Use HTTP proxy or direct connection."

\* "HTTPS through HTTP proxy requires TLS upgrade ..."
NotSupportedMessage ==
    "HTTPS through HTTP proxy requires TLS upgrade which is not fully supported. Consider using direct connection."

\* The caller's bytes were written to the socket of a proxied send.
Forwarded == \E i \in 1..Len(op.writes) : op.writes[i] = "data"

\* The status code of the reply the proxy gave to CONNECT.
ReplyStatus(reply) == ResponseParser_parse(reply).statusCode

\* The step in which the proxy's reply to CONNECT reaches a proxied send that
\* has not completed.
ProxyReplies ==
    /\ op.args.kind = "sendViaProxy"
    /\ sends' = sends
    /\ ~op.resolved
    /\ op.chunks = 0
    /\ op'.chunks = 1

\* C12: the status of the proxy's reply to CONNECT decides the outcome: 200
\* establishes the tunnel (and forwards the caller's bytes, or fails as not
\* supported for an https target), 407 fails with "Proxy authentication
\* required", any other status fails with "Proxy CONNECT failed: " and the
\* first line of the reply; the caller's bytes are not forwarded after a reply
\* other than 200.
C12_OutcomeFollowsStatus ==
    [][ProxyReplies =>
          IF ReplyStatus(op'.reply) = 200
          THEN /\ op'.tunnelEstablished
               /\ \/ op'.writes = Append(op.writes, "data")
                  \/ op'.completions = <<Rejected(NotSupportedMessage, <<>>)>>
          ELSE /\ op'.writes = op.writes
               /\ op'.completions =
                    IF ReplyStatus(op'.reply) = 407
                    THEN <<Rejected("Proxy authentication required", <<>>)>>
                    ELSE <<Rejected("Proxy CONNECT failed: ", FirstLine(op'.reply))>>]_vars

\* C13: for an https target sent through an HTTP proxy the caller's bytes are
\* never written into the tunnel, with or without TLS options.
C13_NoPlaintextThroughTunnel ==
    (op.args.kind = "sendViaProxy" /\ op.args.protocol = "https") => ~Forwarded

\* C14: a send whose proxy protocol is socks4 or socks5 fails with the SOCKS
\* error and opens no connection, for http and for https targets.
C14_SocksRefused ==
    (op.args.kind = "sendViaProxy" /\ op.args.proxyProtocol \in {"socks4", "socks5"})
        => /\ op.completions = <<Rejected(SocksMessage, <<>>)>>
           /\ op.link = "none"

\* The step in which a pipelined send resolves.
PipelinedResolves ==
    /\ op.completions = <<>>
    /\ op'.completions # <<>>
    /\ op'.args.kind = "sendPipelined"
    /\ Head(op'.completions).type = "resolve"

maxConnectionsPerHost == 1

connectionTimeout == 0

MaxCalls == 3

MaxTime == 1

MaxSweeps == 1

Calls == 1..MaxCalls

\* getKey(host, port, protocol) of the target the calls name
Keys == {"http://a:80"}

InitPool ==
    /\ pool = [connections |-> [k \in Keys |-> 0], cleanupInterval |-> TRUE,
               destroyed |-> FALSE, sweeps |-> 0]
    /\ arrays = <<>>
    /\ conn = <<>>
    /\ proc = [p \in Calls |-> [pc |-> "new", key |-> "", conns |-> 0, held |-> 0]]
    /\ now = 0

\* conns.find((c) => !c.inUse) on the array arr: the first idle connection, or
\* 0 for undefined.
available(connHeap, arr) ==
    LET idle == { i \in 1..Len(arr) : ~connHeap[arr[i]].inUse }
    IN  IF idle = {} THEN 0 ELSE arr[Min(idle)]

\* Handing out a connection without marking it in use
take_Unmarked(connHeap, c, t) == [connHeap EXCEPT ![c].lastUsed = t]

\* available.inUse = true; available.lastUsed = Date.now()
take(connHeap, c, t) == [connHeap EXCEPT ![c].inUse = TRUE, ![c].lastUsed = t]

\* acquire(host, port, protocol) up to its first suspension or its return.
\* this.connections.get(key) || [] is the array of the key, or a new empty
\* array that is not yet in the Map.
Acquire(p, key) ==
    /\ proc[p].pc = "new"
    /\ IF p = 1 THEN TRUE ELSE proc[p - 1].pc # "new"
    /\ ~pool.destroyed
    /\ LET present == pool.connections[key] # 0
           conns   == IF present THEN pool.connections[key] ELSE Len(arrays) + 1
           arr     == IF present THEN arrays[conns] ELSE <<>>
           found   == available(conn, arr)
       IN  /\ arrays' = IF present THEN arrays ELSE Append(arrays, <<>>)
           /\ IF found # 0
              THEN /\ conn' = take(conn, found, now)
                   /\ proc' = [proc EXCEPT ![p] = [pc |-> "holding", key |-> key,
                                                   conns |-> conns, held |-> found]]
              ELSE /\ conn' = conn
                   /\ proc' = [proc EXCEPT ![p] =
                                [pc |-> IF Len(arr) < maxConnectionsPerHost
                                        THEN "connecting" ELSE "waiting",
                                 key |-> key, conns |-> conns, held |-> 0]]
    /\ UNCHANGED <<pool, now>>
    /\ UNCHANGED notPoolVars

\* Bun.connect resolves: the rest of acquire builds the connection, pushes it
\* on the array read before the await and stores that array under the key.
ConnectDone(p) ==
    /\ proc[p].pc = "connecting"
    /\ conn' = Append(conn, [key |-> proc[p].key, inUse |-> TRUE, lastUsed |-> now,
                             ended |-> 0])
    /\ arrays' = [arrays EXCEPT ![proc[p].conns] = Append(@, Len(conn) + 1)]
    /\ pool' = [pool EXCEPT !.connections[proc[p].key] = proc[p].conns]
    /\ proc' = [proc EXCEPT ![p].pc = "holding", ![p].held = Len(conn) + 1]
    /\ UNCHANGED now
    /\ UNCHANGED notPoolVars

\* Bun.connect rejects: acquire throws.
ConnectFail(p) ==
    /\ proc[p].pc = "connecting"
    /\ proc' = [proc EXCEPT ![p].pc = "failed"]
    /\ UNCHANGED <<pool, arrays, conn, now>>
    /\ UNCHANGED notPoolVars

\* One firing of the 100 ms interval of a waiting acquire, on the array read
\* when acquire was called.
Poll(p) ==
    /\ proc[p].pc = "waiting"
    /\ LET found == available(conn, arrays[proc[p].conns])
       IN  IF found # 0
           THEN /\ conn' = take(conn, found, now)
                /\ proc' = [proc EXCEPT ![p].pc = "holding", ![p].held = found]
           ELSE UNCHANGED <<conn, proc>>
    /\ UNCHANGED <<pool, arrays, now>>
    /\ UNCHANGED notPoolVars

\* release(conn), called by the holder of the connection.
Release(p) ==
    /\ proc[p].pc = "holding"
    /\ conn' = [conn EXCEPT ![proc[p].held].inUse = FALSE,
                            ![proc[p].held].lastUsed = now]
    /\ proc' = [proc EXCEPT ![p].pc = "released"]
    /\ UNCHANGED <<pool, arrays, now>>
    /\ UNCHANGED notPoolVars

\* The filter predicate of the sweep: an entry is dropped (and its socket
\* ended) when it is idle for longer than the timeout.
evicted(c, t) == ~c.inUse /\ t - c.lastUsed > connectionTimeout

\* conns.filter(...) of the sweep: the entries kept, in order.
RECURSIVE activeOf(_, _, _)
activeOf(connHeap, arr, t) ==
    IF arr = <<>> THEN <<>>
    ELSE IF evicted(connHeap[Head(arr)], t) THEN activeOf(connHeap, Tail(arr), t)
    ELSE <<Head(arr)>> \o activeOf(connHeap, Tail(arr), t)

\* The connections whose socket a sweep at time t ends.
sweptOf(connHeap, connections, arrs, t) ==
    { c \in 1..Len(connHeap) :
        \E k \in Keys : /\ connections[k] # 0
                        /\ \E i \in 1..Len(arrs[connections[k]]) :
                              arrs[connections[k]][i] = c
                        /\ evicted(connHeap[c], t) }

\* The number of keys, among the first n of the sequence ks, whose filtered
\* array is not empty: each of them gets a new array object in the sweep.
RECURSIVE keptBefore(_, _, _, _, _, _)
keptBefore(ks, n, connHeap, connections, arrs, t) ==
    IF n = 0 THEN 0
    ELSE keptBefore(ks, n - 1, connHeap, connections, arrs, t)
         + (IF connections[ks[n]] # 0
               /\ activeOf(connHeap, arrs[connections[ks[n]]], t) # <<>>
            THEN 1 ELSE 0)

\* The keys in the iteration order of the Map.
KeySeq == <<"http://a:80">>

KeyIndex(k) == CHOOSE i \in 1..Len(KeySeq) : KeySeq[i] = k

\* One firing of the 10 s cleanup interval.
Sweep ==
    /\ pool.cleanupInterval
    /\ pool.sweeps < MaxSweeps
    /\ LET swept == sweptOf(conn, pool.connections, arrays, now)
           kept(k) == activeOf(conn, arrays[pool.connections[k]], now)
           slot(k) == Len(arrays)
                      + keptBefore(KeySeq, KeyIndex(k), conn, pool.connections, arrays, now)
           total   == keptBefore(KeySeq, Len(KeySeq), conn, pool.connections, arrays, now)
       IN  /\ conn' = [c \in 1..Len(conn) |->
                         IF c \in swept THEN [conn[c] EXCEPT !.ended = @ + 1] ELSE conn[c]]
           /\ arrays' = [i \in 1..(Len(arrays) + total) |->
                           IF i <= Len(arrays) THEN arrays[i]
                           ELSE kept(CHOOSE k \in Keys :
                                       /\ pool.connections[k] # 0
                                       /\ kept(k) # <<>>
                                       /\ slot(k) = i)]
           /\ pool' = [pool EXCEPT
                         !.sweeps = @ + 1,
                         !.connections =
                            [k \in Keys |->
                               IF pool.connections[k] = 0 \/ kept(k) = <<>> THEN 0
                               ELSE slot(k)]]
    /\ UNCHANGED <<proc, now>>
    /\ UNCHANGED notPoolVars

\* The connections in the arrays of the Map.
pooled(connections, arrs) ==
    { c \in 1..Len(conn) :
        \E k \in Keys : /\ connections[k] # 0
                        /\ \E i \in 1..Len(arrs[connections[k]]) :
                              arrs[connections[k]][i] = c }

\* destroy(): stop the sweep, end the socket of every entry, clear the Map.
Destroy ==
    /\ ~pool.destroyed
    /\ conn' = [c \in 1..Len(conn) |->
                  IF c \in pooled(pool.connections, arrays)
                  THEN [conn[c] EXCEPT !.ended = @ + 1] ELSE conn[c]]
    /\ pool' = [pool EXCEPT !.cleanupInterval = FALSE, !.destroyed = TRUE,
                            !.connections = [k \in Keys |-> 0]]
    /\ UNCHANGED <<arrays, proc, now>>
    /\ UNCHANGED notPoolVars

\* Time passes.
Tick ==
    /\ now < MaxTime
    /\ now' = now + 1
    /\ UNCHANGED <<pool, arrays, conn, proc>>
    /\ UNCHANGED notPoolVars

RECURSIVE SumLen(_, _, _)
SumLen(ks, connections, arrs) ==
    IF ks = <<>> THEN 0
    ELSE (IF connections[Head(ks)] # 0 THEN Len(arrs[connections[Head(ks)]]) ELSE 0)
         + SumLen(Tail(ks), connections, arrs)

\* stats()
stats ==
    [totalConnections  |-> SumLen(KeySeq, pool.connections, arrays),
     activeConnections |-> Cardinality({ c \in pooled(pool.connections, arrays) :
                                           conn[c].inUse }),
     hosts             |-> Cardinality({ k \in Keys : pool.connections[k] # 0 })]

NextPool ==
    \/ \E p \in Calls, key \in Keys : Acquire(p, key)
    \/ \E p \in Calls : ConnectDone(p)
    \/ \E p \in Calls : ConnectFail(p)
    \/ \E p \in Calls : Poll(p)
    \/ \E p \in Calls : Release(p)
    \/ Sweep
    \/ Destroy
    \/ Tick

InitSendUnused ==
    /\ op = IdleOp
    /\ sends = 0
    /\ dynamicTable = <<>>

\* A pool in use by callers, no send of the clients being looked at.
InitPoolOnly ==
    /\ InitPool /\ InitSendUnused /\ InitSplitUnused /\ InitBuilderUnused
    /\ InitHpackUnused /\ InitFrameUnused /\ InitParseUnused /\ InitTimingUnused
    /\ InitCodecUnused

SpecPool == InitPoolOnly /\ [][NextPool]_vars

(***************************************************************************)
(* Properties of the pool                                                  *)
(***************************************************************************)
\* The connections of key k whose socket was never ended.
openFor(k) == { c \in 1..Len(conn) : conn[c].key = k /\ conn[c].ended = 0 }

\* C3: for every key, the connections created and held for the key never
\* exceed maxConnectionsPerHost.
C3_ConnectionsWithinCap ==
    \A k \in Keys : Cardinality(openFor(k)) <= maxConnectionsPerHost

\* C4: a connection has at most one holder at a time: no two calls of acquire
\* hold the same connection, and a held connection is marked in use.
C4_SingleHolder ==
    /\ \A p \in Calls, q \in Calls :
          (p # q /\ proc[p].pc = "holding" /\ proc[q].pc = "holding")
              => proc[p].held # proc[q].held
    /\ \A p \in Calls : proc[p].pc = "holding" => conn[proc[p].held].inUse

\* A connection released by one call is held by another call.
C4_HeldAfterRelease ==
    \E p \in Calls, q \in Calls :
        /\ proc[p].pc = "released"
        /\ proc[q].pc = "holding"
        /\ proc[q].held = proc[p].held

\* C5: a waiting acquire returns once a holder of a connection of its key has
\* released it, whichever acquire created the connection: whenever a
\* connection of the key is idle with its socket open, the next poll of a
\* waiting acquire of that key finds a connection.
C5_WaiterFindsReleased ==
    \A p \in Calls :
        (proc[p].pc = "waiting" /\ \E c \in openFor(proc[p].key) : ~conn[c].inUse)
            => available(conn, arrays[proc[p].conns]) # 0

\* C6: release leaves the entry in the pool, idle, for the next acquire of the
\* key: a released connection whose socket the pool has not closed is an entry
\* of the array the Map holds for its key.
C6_ReleasedStaysPooled ==
    \A p \in Calls :
        (proc[p].pc = "released" /\ conn[proc[p].held].ended = 0)
            => proc[p].held \in pooled(pool.connections, arrays)

\* C7: once destroy was called and every acquire has returned, the sweep is
\* stopped, every socket the pool opened is closed, and stats reports no
\* connection and no host.
C7_DestroyedPoolIsEmpty ==
    (pool.destroyed /\ \A p \in Calls : proc[p].pc \notin {"connecting", "waiting"})
        => /\ ~pool.cleanupInterval
           /\ \A c \in 1..Len(conn) : conn[c].ended > 0
           /\ stats.totalConnections = 0
           /\ stats.hosts = 0

InitPoolUnused ==
    /\ pool = <<>>
    /\ arrays = <<>>
    /\ conn = <<>>
    /\ proc = <<>>
    /\ now = 0

Init ==
    /\ InitSend /\ InitPoolUnused /\ InitSplitUnused /\ InitBuilderUnused
    /\ InitHpackUnused /\ InitFrameUnused /\ InitParseUnused /\ InitTimingUnused
    /\ InitCodecUnused

Next ==
    \/ \E a \in SendArgs : Start(a)
    \/ Open
    \/ \E chunk \in ChunksFor(op.args.kind) : Data(chunk)
    \/ End
    \/ Close
    \/ SocketError
    \/ ConnectError
    \/ ConnectRejected
    \/ Timer

Spec == Init /\ [][Next]_vars

(***************************************************************************)
(* RequestBuilder.  A builder is an object of the heap builders; its       *)
(* _headers field is a reference into the heap headerArrays, so that two   *)
(* builders sharing one array would be seen to.  Strings are sequences of  *)
(* UTF-16 code units, Buffers sequences of bytes; a body is either.        *)
(***************************************************************************)
MaxBuilderCalls == 3

MaxBuilders == 2

\* "\r\n", the default _lineEnding
CRLF == <<13, 10>>

\* "\n", the line ending of useLfOnly
LF == <<10>>

\* " ", the default _requestLineSeparator
SP == <<32>>

\* "\t", a request line separator a caller may choose
TAB == <<9>>

\* "GET", the default _method
StrGET == <<71, 69, 84>>

\* "POST"
StrPOST == <<80, 79, 83, 84>>

\* "/", the default _path
StrSlash == <<47>>

\* "/p"
StrSlashP == <<47, 112>>

\* "1.1", the default _httpVersion
Str11 == <<49, 46, 49>>

\* "HTTP/" of the request line
StrHTTPSlash == <<72, 84, 84, 80, 47>>

\* ": " between the name and the value of a structured header
ColonSpace == <<58, 32>>

\* "host"
StrHost == <<104, 111, 115, 116>>

\* "://"
StrColonSlashSlash == <<58, 47, 47>>

\* The text of a scheme: "http" or "https".
SchemeText(s) ==
    IF s = "https" THEN <<104, 116, 116, 112, 115>> ELSE <<104, 116, 116, 112>>

\* String(n) of a non-negative integer.
RECURSIVE NatToString(_)
NatToString(n) ==
    IF n < 10 THEN <<48 + n>> ELSE NatToString(n \div 10) \o <<48 + (n % 10)>>

\* A string body and a Buffer body.
StringBody(s) == [isBuffer |-> FALSE, data |-> s]

BufferBody(bytes) == [isBuffer |-> TRUE, data |-> bytes]

\* The truth value of a body: every Buffer is truthy, a string unless empty.
Truthy(b) == b.isBuffer \/ b.data # <<>>

\* The fields of a new RequestBuilder whose _headers array is at ref.
NewBuilder(ref) ==
    [_url |-> <<>>, _method |-> StrGET, _path |-> StrSlash, _host |-> <<>>,
     _port |-> 80, _scheme |-> "http", _httpVersion |-> Str11,
     _headers |-> ref, _body |-> StringBody(<<>>),
     _lineEnding |-> CRLF, _requestLineSeparator |-> SP]

\* The entries header(name, value) and rawHeader(rawLine) push: raw is
\* undefined in the first.
StructuredEntry(name, value) ==
    [name |-> name, value |-> value, hasRaw |-> FALSE, raw |-> <<>>]

RawEntry(rawLine) ==
    [name |-> <<>>, value |-> <<>>, hasRaw |-> TRUE, raw |-> rawLine]

\* What the callers of this model pass to the builder.
\* "A" and "Host"
HeaderNames == { <<65>>, <<72, 111, 115, 116>> }

\* ("A", ""), ("A", "v") and ("Host", "v")
HeaderPairs == { <<<<65>>, <<>>>>, <<<<65>>, <<118>>>>, <<<<72, 111, 115, 116>>, <<118>>>> }

\* "" and "B:\r\n\0x", a raw line holding CR, LF and NUL
RawLines == { <<>>, <<66, 58, 13, 10, 0, 120>> }

\* "b" as a string, and the bytes of "é" as a Buffer
Bodies == { StringBody(<<98>>), BufferBody(<<195, 169>>) }

\* "https://h/p"
UrlHttps == <<104, 116, 116, 112, 115, 58, 47, 47, 104, 47, 112>>

Urls == { UrlHttps }

\* new URL(u) on the URLs above: its parts, or ok = FALSE where it throws.
parseURL(u) ==
    IF u = UrlHttps
    THEN [ok |-> TRUE, hostname |-> <<104>>, port |-> <<>>,
          pathname |-> StrSlashP, search |-> <<>>, hash |-> <<>>,
          protocol |-> "https:"]
    ELSE [ok |-> FALSE, hostname |-> <<>>, port |-> <<>>,
          pathname |-> <<>>, search |-> <<>>, hash |-> <<>>, protocol |-> ""]

\* Array.prototype.join(sep) of an array of strings.
RECURSIVE Join(_, _)
Join(lines, sep) ==
    IF lines = <<>> THEN <<>>
    ELSE IF Len(lines) = 1 THEN lines[1]
    ELSE lines[1] \o sep \o Join(Tail(lines), sep)

\* The _headers array of a builder.
headersOf(this) == headerArrays[this._headers]

\* The request line build() and buildBuffer() push first.
requestLine(this) ==
    this._method \o this._requestLineSeparator \o this._path
        \o this._requestLineSeparator \o StrHTTPSlash \o this._httpVersion

\* build() and buildBuffer() push, for a raw header, the line as given (also
\* the empty one: the test is raw !== undefined), else "name: value".
headerLine_RawIfTruthy(h) ==
    IF h.hasRaw /\ h.raw # <<>> THEN h.raw ELSE h.name \o ColonSpace \o h.value

headerLine(h) ==
    IF h.hasRaw THEN h.raw ELSE h.name \o ColonSpace \o h.value

\* The array lines of build(): the request line, a line per header, "".
buildLines(this) ==
    <<requestLine(this)>>
        \o [i \in 1..Len(headersOf(this)) |-> headerLine(headersOf(this)[i])]
        \o << <<>> >>

\* RequestBuilder.build(): the request as a string.
build_KeepsLines(this) ==
    LET request == built.request \o Join(buildLines(this), this._lineEnding)
    IN  IF Truthy(this._body)
        THEN request \o (IF this._body.isBuffer
                         THEN Utf8Decode(this._body.data)
                         ELSE this._body.data)
        ELSE request

build(this) ==
    LET request == Join(buildLines(this), this._lineEnding)
    IN  IF Truthy(this._body)
        THEN request \o (IF this._body.isBuffer
                         THEN Utf8Decode(this._body.data)
                         ELSE this._body.data)
        ELSE request

\* RequestBuilder.buildBuffer(): the request as bytes.
buildBuffer(this) ==
    LET headerPart == Utf8Encode(Join(buildLines(this), this._lineEnding))
    IN  IF Truthy(this._body)
        THEN headerPart \o (IF this._body.isBuffer
                            THEN this._body.data
                            ELSE Utf8Encode(this._body.data))
        ELSE headerPart

\* headers[name] of a Record kept as a list of <<name, value>> in the order
\* the properties were created; a value is a string or an array of strings.
RecordHas(headers, name) == \E i \in 1..Len(headers) : headers[i][1] = name

RecordGet(headers, name) ==
    headers[CHOOSE i \in 1..Len(headers) : headers[i][1] = name][2]

OneString(v) == [isArray |-> FALSE, values |-> <<v>>]

\* The loop of buildOptions() from entry i on; headers is the Record so far.
RECURSIVE optionsHeaders(_, _, _)
optionsHeaders(entries, i, headers) ==
    IF i > Len(entries) THEN headers
    ELSE LET h == entries[i]
             existing == IF RecordHas(headers, h.name)
                         THEN RecordGet(headers, h.name)
                         ELSE [isArray |-> FALSE, values |-> << <<>> >>]
             truthy == RecordHas(headers, h.name)
                         /\ (existing.isArray \/ existing.values[1] # <<>>)
             after == IF h.hasRaw /\ h.raw # <<>>
                      THEN headers
                      ELSE IF truthy
                      THEN MapSet(headers, h.name,
                                  [isArray |-> TRUE,
                                   values |-> Append(existing.values, h.value)])
                      ELSE MapSet(headers, h.name, OneString(h.value))
         IN  CHOOSE out \in { optionsHeaders(entries, i + 1, record) :
                                record \in {after} } : TRUE

\* RequestBuilder.buildOptions()
buildOptions(this) ==
    [method |-> this._method,
     path |-> this._path,
     headers |-> optionsHeaders(headersOf(this), 1, <<>>),
     body |-> IF Truthy(this._body) THEN <<this._body>> ELSE <<>>]

\* RequestBuilder.buildUrl()
buildUrl(this) ==
    IF this._url # <<>> THEN this._url
    ELSE IF this._host # <<>>
    THEN LET port == IF \/ (this._scheme = "https" /\ this._port = 443)
                        \/ (this._scheme = "http" /\ this._port = 80)
                     THEN <<>>
                     ELSE <<58>> \o NatToString(this._port)
         IN  SchemeText(this._scheme) \o StrColonSlashSlash \o this._host
                 \o port \o this._path
    ELSE this._path

\* RequestBuilder.getHostHeader(): the value of the first header named host,
\* up to its first colon; found = FALSE for undefined.
getHostHeader(this) ==
    LET entries == headersOf(this)
        hits == { i \in 1..Len(entries) : ToLowerCase(entries[i].name) = StrHost }
    IN  IF hits = {} THEN [found |-> FALSE, value |-> <<>>]
        ELSE LET v == entries[Min(hits)].value
                 c == IndexOf(v, <<58>>, 0)
             IN  [found |-> TRUE,
                  value |-> IF c = -1 THEN v ELSE Substring(v, 0, c)]

\* buildHttp2Headers() on a raw line: what precedes its first colon, trimmed
\* and in lower case, is set to what follows, trimmed; a line without a name
\* or whose name starts with a colon is skipped.
http2RawHeader(headers, raw) ==
    LET colonIdx == IndexOf(raw, <<58>>, 0)
    IN  IF colonIdx > 0
        THEN CHOOSE out \in
                 { IF name # <<>> /\ name[1] # 58
                   THEN MapSet(headers, name, value)
                   ELSE headers :
                       name \in {ToLowerCase(Trim(Substring(raw, 0, colonIdx)))},
                       value \in {Trim(SubstringFrom(raw, colonIdx + 1))} } : TRUE
        ELSE headers

\* The loop of buildHttp2Headers() from entry i on; headers is the Map so far.
RECURSIVE http2Headers(_, _, _)
http2Headers(entries, i, headers) ==
    IF i > Len(entries) THEN headers
    ELSE LET h == entries[i]
             after == IF h.hasRaw /\ h.raw # <<>>
                      THEN http2RawHeader(headers, h.raw)
                      ELSE IF ToLowerCase(h.name) # StrHost
                      THEN MapSet(headers, ToLowerCase(h.name), h.value)
                      ELSE headers
         IN  CHOOSE out \in { http2Headers(entries, i + 1, map) :
                                map \in {after} } : TRUE

\* RequestBuilder.buildHttp2Headers(): the Map as its entries in order.
\* ":method", ":path", ":scheme", ":authority" come first.
buildHttp2Headers(this) ==
    LET authority == IF this._host # <<>> THEN this._host
                     ELSE getHostHeader(this).value
        pseudo == << <<<<58, 109, 101, 116, 104, 111, 100>>, this._method>>,
                     <<<<58, 112, 97, 116, 104>>, this._path>>,
                     <<<<58, 115, 99, 104, 101, 109, 101>>, SchemeText(this._scheme)>>,
                     <<<<58, 97, 117, 116, 104, 111, 114, 105, 116, 121>>, authority>> >>
    IN  CHOOSE out \in { http2Headers(headersOf(this), 1, map) :
                           map \in {pseudo} } : TRUE

\* What a caller can have a builder build.
Projections(this) ==
    <<build(this), buildOptions(this), buildUrl(this), buildHttp2Headers(this)>>

(***************************************************************************)
(* The methods of a builder as steps of a caller, who holds at most        *)
(* MaxBuilders builders and calls at most MaxBuilderCalls methods that     *)
(* change one.  The caller keeps what build() returned while the builders  *)
(* stay as they are.                                                       *)
(***************************************************************************)
Builders == 1..Len(builders)

Hosts == { <<104>> }

\* A method of builder i that assigns fields: the builder becomes to.
Assign(i, to) ==
    /\ calls < MaxBuilderCalls
    /\ builders' = [builders EXCEPT ![i] = to]
    /\ calls' = calls + 1
    /\ built' = NoBuild
    /\ UNCHANGED headerArrays
    /\ UNCHANGED notBuilderVars

\* A method of builder i that pushes an entry onto its _headers array.
Push(i, entry) ==
    /\ calls < MaxBuilderCalls
    /\ headerArrays' = [headerArrays EXCEPT ![builders[i]._headers] = Append(@, entry)]
    /\ calls' = calls + 1
    /\ built' = NoBuild
    /\ UNCHANGED builders
    /\ UNCHANGED notBuilderVars

\* url(u): the fields a parsed URL sets; a string that is no URL is only kept.
url(this, u) ==
    LET parsed == parseURL(u)
    IN  IF parsed.ok
        THEN [this EXCEPT
                 !._url = u,
                 !._host = parsed.hostname,
                 !._port = IF parsed.port # <<>> THEN ParseInt(parsed.port)
                           ELSE IF parsed.protocol = "https:" THEN 443 ELSE 80,
                 !._path = parsed.pathname \o parsed.search \o parsed.hash,
                 !._scheme = IF parsed.protocol = "https:" THEN "https" ELSE "http"]
        ELSE [this EXCEPT !._url = u]

Url(i, u) == Assign(i, url(builders[i], u))

Host(i, h) == Assign(i, [builders[i] EXCEPT !._host = h])

Scheme(i, sch) == Assign(i, [builders[i] EXCEPT !._scheme = sch])

Method(i, m) == Assign(i, [builders[i] EXCEPT !._method = m])

Path(i, pth) == Assign(i, [builders[i] EXCEPT !._path = pth])

Header(i, name, value) == Push(i, StructuredEntry(name, value))

RawHeader(i, rawLine) == Push(i, RawEntry(rawLine))

Body(i, b) == Assign(i, [builders[i] EXCEPT !._body = b])

UseLfOnly(i) == Assign(i, [builders[i] EXCEPT !._lineEnding = LF])

RequestLineSeparator(i, sep) ==
    Assign(i, [builders[i] EXCEPT !._requestLineSeparator = sep])

\* clone(): a new builder with the fields of this one and, at ref, a new
\* array of copies of its header entries.
clone_SharedHeaders(this, ref) ==
    [NewBuilder(this._headers) EXCEPT
        !._url = this._url, !._method = this._method, !._path = this._path,
        !._host = this._host, !._port = this._port, !._scheme = this._scheme,
        !._httpVersion = this._httpVersion, !._body = this._body,
        !._lineEnding = this._lineEnding,
        !._requestLineSeparator = this._requestLineSeparator]

clone(this, ref) ==
    [NewBuilder(ref) EXCEPT
        !._url = this._url, !._method = this._method, !._path = this._path,
        !._host = this._host, !._port = this._port, !._scheme = this._scheme,
        !._httpVersion = this._httpVersion, !._body = this._body,
        !._lineEnding = this._lineEnding,
        !._requestLineSeparator = this._requestLineSeparator]

Clone(i) ==
    /\ Len(builders) < MaxBuilders
    /\ calls < MaxBuilderCalls
    /\ headerArrays' = Append(headerArrays, headersOf(builders[i]))
    /\ builders' = Append(builders, clone(builders[i], Len(headerArrays) + 1))
    /\ calls' = calls + 1
    /\ UNCHANGED built
    /\ UNCHANGED notBuilderVars

\* build() on builder i: it assigns no field of the builder.
Build(i) ==
    /\ built' = [of |-> i, request |-> build(builders[i])]
    /\ UNCHANGED <<builders, headerArrays, calls>>
    /\ UNCHANGED notBuilderVars

\* The methods that change builder i.
ChangeOf(i) ==
    \/ \E u \in Urls : Url(i, u)
    \/ \E h \in Hosts : Host(i, h)
    \/ Scheme(i, "https")
    \/ Method(i, StrPOST)
    \/ Path(i, StrSlashP)
    \/ \E pair \in HeaderPairs : Header(i, pair[1], pair[2])
    \/ \E rawLine \in RawLines : RawHeader(i, rawLine)
    \/ \E b \in Bodies : Body(i, b)
    \/ UseLfOnly(i)
    \/ RequestLineSeparator(i, TAB)

NextBuilder ==
    \E i \in Builders :
        \/ ChangeOf(i)
        \/ Clone(i)
        \/ Build(i)

\* One new RequestBuilder.
InitBuilder ==
    /\ builders = <<NewBuilder(1)>>
    /\ headerArrays = << <<>> >>
    /\ built = NoBuild
    /\ calls = 0

InitBuilderOnly ==
    /\ InitBuilder /\ InitSendUnused /\ InitPoolUnused /\ InitSplitUnused
    /\ InitHpackUnused /\ InitFrameUnused /\ InitParseUnused /\ InitTimingUnused
    /\ InitCodecUnused

SpecBuilder == InitBuilderOnly /\ [][NextBuilder]_vars

(***************************************************************************)
(* Properties of the builder                                               *)
(***************************************************************************)
\* The text of a header entry in a request: a raw line as it was given, a
\* structured header as "name: value".
EntryText(h) == IF h.hasRaw THEN h.raw ELSE h.name \o ColonSpace \o h.value

\* The entries from the k-th on, each followed by the line ending.
RECURSIVE EntriesText(_, _, _)
EntriesText(entries, k, ending) ==
    IF k > Len(entries) THEN <<>>
    ELSE EntryText(entries[k]) \o ending \o EntriesText(entries, k + 1, ending)

\* The body as build() can return it: a string.
BodyText(this) ==
    IF this._body.isBuffer THEN Utf8Decode(this._body.data) ELSE this._body.data

\* C15: build() returns the request line, every header line in insertion
\* order, each of them followed by the line ending, then one more line
\* ending (the empty separator line), then the body.
C15_SeparatorLineBeforeBody ==
    \A i \in Builders :
        build(builders[i]) =
            requestLine(builders[i]) \o builders[i]._lineEnding
                \o EntriesText(headersOf(builders[i]), 1, builders[i]._lineEnding)
                \o builders[i]._lineEnding
                \o BodyText(builders[i])

\* The values header(name, value) was called with for a name, in call order.
ValuesAdded(entries, name) ==
    LET added == SelectSeq(entries, LAMBDA h : ~h.hasRaw /\ h.name = name)
    IN  [k \in 1..Len(added) |-> added[k].value]

\* The values a Record of buildOptions() holds for a name: those of the
\* array, the one string, or none.
OptionValues(headers, name) ==
    IF RecordHas(headers, name) THEN RecordGet(headers, name).values ELSE <<>>

\* Where the line of the k-th header entry starts in build(): after the
\* request line and the lines of the k - 1 entries before it.
LineOffset(this, k) ==
    Len(requestLine(this)) + Len(this._lineEnding)
        + Len(EntriesText(SubSeq(headersOf(this), 1, k - 1), 1, this._lineEnding))

\* The text of build() at the line of the k-th entry, as long as the text
\* the entry was added with and a line ending.
LineAt(this, k) ==
    Substring(build(this), LineOffset(this, k),
              LineOffset(this, k) + Len(EntryText(headersOf(this)[k]))
                  + Len(this._lineEnding))

\* Every structured header is a line "name: value" of build() at the
\* position at which it was added.
StructuredLinesInOrder(this) ==
    \A k \in 1..Len(headersOf(this)) :
        ~headersOf(this)[k].hasRaw
            => LineAt(this, k) = headersOf(this)[k].name \o ColonSpace
                                     \o headersOf(this)[k].value \o this._lineEnding

\* buildOptions() holds under every name the values added under it, in order.
OptionsListAllValues(this) ==
    \A name \in HeaderNames :
        OptionValues(buildOptions(this).headers, name)
            = ValuesAdded(headersOf(this), name)

\* C16: every structured header added is in build() once per addition and in
\* insertion order, and buildOptions() maps each header name to the list of
\* all values added under it, in insertion order, empty strings included.
C16_EveryValueKept ==
    \A i \in Builders :
        /\ StructuredLinesInOrder(builders[i])
        /\ OptionsListAllValues(builders[i])

\* C17: every raw header line is in build() byte for byte, whatever it holds
\* (CR, LF, NUL, nothing), as the line at the position at which it was added,
\* and is not rewritten as "name: value".
C17_RawLinesVerbatim ==
    \A i \in Builders :
        \A k \in 1..Len(headersOf(builders[i])) :
            headersOf(builders[i])[k].hasRaw
                => LineAt(builders[i], k)
                       = headersOf(builders[i])[k].raw \o builders[i]._lineEnding

\* C17 at work: build() was called on a builder holding a structured header,
\* then the raw line with CR, LF and NUL, then the empty raw line.
C17_RawLinesBuilt ==
    /\ built.of \in Builders
    /\ Len(headersOf(builders[built.of])) = 3
    /\ ~headersOf(builders[built.of])[1].hasRaw
    /\ headersOf(builders[built.of])[2] = RawEntry(<<66, 58, 13, 10, 0, 120>>)
    /\ headersOf(builders[built.of])[3] = RawEntry(<<>>)

\* C18: a clone builds the same bytes as its original right after clone(),
\* and a method called on one builder leaves build(), buildOptions(),
\* buildUrl() and buildHttp2Headers() of every other builder as they were.
C18_CloneIndependent ==
    [][/\ \A i \in Builders :
             Clone(i) => build(builders[Len(builders)])' = build(builders[i])'
       /\ \A i \in Builders :
             ChangeOf(i) => \A j \in Builders \ {i} :
                               Projections(builders[j])' = Projections(builders[j])]_vars

\* C18 at work: an original and its clone after the last call, of which one
\* has got a header that the other has not, so that they build differently.
C18_CloneDiverged ==
    /\ Len(builders) = 2
    /\ calls = MaxBuilderCalls
    /\ Len(headersOf(builders[1])) # Len(headersOf(builders[2]))
    /\ build(builders[1]) # build(builders[2])

MaxHeaderFields == 2

\* ":method" (static index 2), ":status" (8), "accept-charset" (15),
\* "accept" (19), "host" (38), "www-authenticate" (61), and "x", which the
\* static table does not hold
FieldNames ==
    { HPACK_STATIC_TABLE[2 + 1][1], HPACK_STATIC_TABLE[8 + 1][1],
      HPACK_STATIC_TABLE[15 + 1][1], HPACK_STATIC_TABLE[19 + 1][1],
      HPACK_STATIC_TABLE[38 + 1][1], HPACK_STATIC_TABLE[61 + 1][1], <<120>> }

\* "", "GET", "200" and "é"
FieldValues == { <<>>, <<71, 69, 84>>, <<50, 48, 48>>, <<233>> }

\* headers.set(name, value) by the caller, on a Map of fewer than
\* MaxHeaderFields headers
HeadersSet(name, value) ==
    /\ Len(hpackHeaders) < MaxHeaderFields
    /\ hpackHeaders' = MapSet(hpackHeaders, name, value)
    /\ encoded' = NotEncoded
    /\ UNCHANGED notHpackVars

\* new HpackDecoder().decodeHeaders(new HpackEncoder().encodeHeaders(headers))
EncodeHeaders ==
    /\ encoded' = [by |-> "encodeHeaders",
                   block |-> encodeHeaders(hpackHeaders),
                   decoded |-> decodeHeaders(encodeHeaders(hpackHeaders), <<>>).headers]
    /\ UNCHANGED hpackHeaders
    /\ UNCHANGED notHpackVars

\* The same with encodeHeadersLiteral.
EncodeHeadersLiteral ==
    /\ encoded' = [by |-> "encodeHeadersLiteral",
                   block |-> encodeHeadersLiteral(hpackHeaders),
                   decoded |-> decodeHeaders(encodeHeadersLiteral(hpackHeaders), <<>>).headers]
    /\ UNCHANGED hpackHeaders
    /\ UNCHANGED notHpackVars

NextHpack ==
    \/ \E name \in FieldNames, value \in FieldValues : HeadersSet(name, value)
    \/ EncodeHeaders
    \/ EncodeHeadersLiteral

InitHpack ==
    /\ hpackHeaders = <<>>
    /\ encoded = NotEncoded

InitHpackOnly ==
    /\ InitHpack /\ InitSendUnused /\ InitPoolUnused /\ InitSplitUnused
    /\ InitBuilderUnused /\ InitFrameUnused /\ InitParseUnused /\ InitTimingUnused
    /\ InitCodecUnused

SpecHpack == InitHpackOnly /\ [][NextHpack]_vars

\* C20: a new decoder reads from the block of encodeHeaders(H), and from the
\* block of encodeHeadersLiteral(H), the headers H in their order, also when
\* names of H are in the static table, at whatever index.
C20_DecodesWhatWasEncoded ==
    encoded.by # "none" => encoded.decoded = hpackHeaders

(***************************************************************************)
(* HTTP/2 frame builder (src/unnamed/part_002, class Http2FrameBuilder).   *)
(* A number that may use all 32 bits is kept as its two 16-bit halves      *)
(* <<high, low>>.                                                          *)
(***************************************************************************)
FrameTypeSETTINGS == 4

SettingsMAX_CONCURRENT_STREAMS == 3

SettingsINITIAL_WINDOW_SIZE == 4

\* The halves of a number below 2^31.
UInt32Of(n) == <<n \div 65536, n % 65536>>

\* n & 0x7fffffff
And7fffffff(n) == <<n[1] % 32768, n[2]>>

\* header.writeUIntBE(n, 0, 3)
WriteUInt24BE(n) == <<(n \div 65536) % 256, (n \div 256) % 256, n % 256>>

\* writeUInt16BE(n)
WriteUInt16BE(n) == <<(n \div 256) % 256, n % 256>>

\* writeUInt32BE(n) of a number in halves
WriteUInt32BE(n) == WriteUInt16BE(n[1]) \o WriteUInt16BE(n[2])

\* Http2FrameBuilder.buildFrame(type, flags, streamId, payload)
buildFrame_KeepsReserved(type, flags, streamId, payload) ==
    WriteUInt24BE(Len(payload)) \o <<type, flags>>
        \o WriteUInt32BE(streamId) \o payload

buildFrame(type, flags, streamId, payload) ==
    WriteUInt24BE(Len(payload)) \o <<type, flags>>
        \o WriteUInt32BE(And7fffffff(streamId)) \o payload

(***************************************************************************)
(* A caller who builds a frame and parses the bytes, as sent and with the  *)
(* reserved bit of the stream identifier set on the way.                   *)
(***************************************************************************)
MaxPayload == 2

\* DATA, HEADERS, SETTINGS, CONTINUATION, and a type that is none of the ten.
FrameTypes == {0, 1, 4, 9, 255}

\* No flag, END_STREAM | END_HEADERS, PADDED | PRIORITY, all bits.
FlagSets == {0, 5, 40, 255}

\* 0, 1, 2^31 - 1, 2^31 + 1 and 2^32 - 1
StreamIds == { <<0, 0>>, <<0, 1>>, <<32767, 65535>>, <<32768, 1>>, <<65535, 65535>> }

\* The payloads of at most n bytes, each 0 or 255.
RECURSIVE Payloads(_)
Payloads(n) ==
    IF n = 0 THEN { <<>> }
    ELSE Payloads(n - 1)
           \cup { Append(p, b) : p \in { q \in Payloads(n - 1) : Len(q) = n - 1 },
                                 b \in {0, 255} }

\* The bytes of a frame with the reserved bit set.
WithReservedBit(bytes) == [bytes EXCEPT ![6] = 128 + (@ % 128)]

BuildFrame(type, flags, streamId, payload) ==
    /\ frameCall' = [type |-> type, flags |-> flags, streamId |-> streamId,
                     payload |-> payload,
                     bytes |-> buildFrame(type, flags, streamId, payload),
                     parsed |-> parseFrame(buildFrame(type, flags, streamId, payload), 0),
                     parsedReserved |->
                         parseFrame(WithReservedBit(
                                        buildFrame(type, flags, streamId, payload)), 0)]
    /\ UNCHANGED <<h2send, h2frames, h2response>>
    /\ UNCHANGED notFrameVars

NextFrame ==
    \E type \in FrameTypes, flags \in FlagSets, streamId \in StreamIds,
       payload \in Payloads(MaxPayload) : BuildFrame(type, flags, streamId, payload)

\* What every specification of the codecs starts from besides its own part.
InitNoConnection ==
    /\ InitSendUnused /\ InitPoolUnused /\ InitSplitUnused /\ InitBuilderUnused
    /\ InitHpackUnused

InitFrame ==
    /\ InitFrameUnused /\ InitParseUnused /\ InitTimingUnused /\ InitCodecUnused
    /\ InitNoConnection

SpecFrame == InitFrame /\ [][NextFrame]_vars

\* C21: parsing the bytes of buildFrame(T, F, S, P) gives length |P|, type T,
\* flags F, payload P, bytesRead 9 + |P| and the stream id S modulo 2^31;
\* the reserved bit is zero in the bytes, and a frame that arrives with the
\* bit set parses the same.
C21_FrameRoundTrip ==
    frameCall # <<>> =>
        /\ frameCall.parsed =
               [isNull |-> FALSE,
                frame |-> [length |-> Len(frameCall.payload),
                           type |-> frameCall.type,
                           flags |-> frameCall.flags,
                           streamId |-> ((frameCall.streamId[1] % 32768) * 65536)
                                            + frameCall.streamId[2],
                           payload |-> frameCall.payload],
                bytesRead |-> 9 + Len(frameCall.payload)]
        /\ frameCall.bytes[6] < 128
        /\ frameCall.parsedReserved = frameCall.parsed

\* C21 at work: a frame of an unknown type with all flags, a payload and a
\* stream id whose top bit is set has been built and parsed.
C21_ReservedBitGiven ==
    /\ frameCall # <<>>
    /\ frameCall.streamId[1] >= 32768
    /\ frameCall.type = 255
    /\ frameCall.flags = 255
    /\ Len(frameCall.payload) = MaxPayload

(***************************************************************************)
(* Http2FrameBuilder.buildRequest and the write of Http2Client.sendRequest *)
(***************************************************************************)
\* "PRI * HTTP/2.0\r\n\r\nSM\r\n\r\n"
HTTP2_PREFACE ==
    <<80, 82, 73, 32, 42, 32, 72, 84, 84, 80, 47, 50, 46, 48, 13, 10, 13, 10,
      83, 77, 13, 10, 13, 10>>

\* ":method"
StrMethod == <<58, 109, 101, 116, 104, 111, 100>>

\* ":path"
StrPath == <<58, 112, 97, 116, 104>>

\* ":scheme"
StrScheme == <<58, 115, 99, 104, 101, 109, 101>>

\* ":authority"
StrAuthority == <<58, 97, 117, 116, 104, 111, 114, 105, 116, 121>>

\* "https"
StrHttps == <<104, 116, 116, 112, 115>>

\* buildSettingsFrame(settings): six bytes for each entry of the Map.
RECURSIVE settingsPayload(_)
settingsPayload(settings) ==
    IF settings = <<>> THEN <<>>
    ELSE WriteUInt16BE(Head(settings)[1]) \o WriteUInt32BE(UInt32Of(Head(settings)[2]))
             \o settingsPayload(Tail(settings))

buildSettingsFrame(settings) ==
    buildFrame(FrameTypeSETTINGS, 0, UInt32Of(0), settingsPayload(settings))

\* buildHeadersFrame(streamId, headers, endStream, endHeaders)
buildHeadersFrame(streamId, headerMap, endStream, endHeaders) ==
    buildFrame(FrameTypeHEADERS,
               BitOr(IF endStream THEN FlagEND_STREAM ELSE 0,
                     IF endHeaders THEN FlagEND_HEADERS ELSE 0),
               UInt32Of(streamId), encodeHeaders(headerMap))

\* buildDataFrame(streamId, data, endStream) without padLength
buildDataFrame(streamId, data, endStream) ==
    buildFrame(FrameTypeDATA, IF endStream THEN FlagEND_STREAM ELSE 0,
               UInt32Of(streamId), data)

\* An optional body: undefined, a string or a Buffer.
NoBody == [given |-> FALSE, isBuffer |-> FALSE, data |-> <<>>]

GivenString(str) == [given |-> TRUE, isBuffer |-> FALSE, data |-> str]

GivenBuffer(bytes) == [given |-> TRUE, isBuffer |-> TRUE, data |-> bytes]

\* options.body && options.body.length > 0
hasBody_Defined(body) == body.given

hasBody(body) ==
    /\ body.given
    /\ (body.isBuffer \/ body.data # <<>>)
    /\ Len(body.data) > 0

\* typeof options.body === "string" ? Buffer.from(options.body) : options.body
bodyBuffer(body) == IF body.isBuffer THEN body.data ELSE Utf8Encode(body.data)

\* for (const [name, value] of Object.entries(options.headers))
\*     headers.set(name.toLowerCase(), value)
RECURSIVE customHeaders(_, _)
customHeaders(map, entries) ==
    IF entries = <<>> THEN map
    ELSE customHeaders(MapSet(map, ToLowerCase(Head(entries)[1]), Head(entries)[2]),
                       Tail(entries))

\* The Map of pseudo-headers and custom headers; scheme <<>> is undefined.
requestHeaders(options) ==
    customHeaders(<< <<StrMethod, options.method>>, <<StrPath, options.path>>,
                     <<StrScheme, IF options.scheme = <<>> THEN StrHttps
                                  ELSE options.scheme>> >>
                      \o << <<StrAuthority, options.authority>> >>,
                  options.headers)

\* Http2FrameBuilder.buildRequest(options)
buildRequest(options) ==
    HTTP2_PREFACE
      \o buildSettingsFrame(<< <<SettingsMAX_CONCURRENT_STREAMS, 100>>,
                               <<SettingsINITIAL_WINDOW_SIZE, 65535>> >>)
      \o buildHeadersFrame(1, requestHeaders(options), ~hasBody(options.body), TRUE)
      \o (IF hasBody(options.body)
          THEN buildDataFrame(1, bodyBuffer(options.body), TRUE)
          ELSE <<>>)

(***************************************************************************)
(* Http2Client.sendRequest as far as its writes go: the request bytes are  *)
(* built at the call and written by the open handler.                      *)
(***************************************************************************)
\* "GET", "POST"
RequestMethods == { StrGET, StrPOST }

\* "" (falsy: the host is used) and "b"
Authorities == { <<>>, <<98>> }

\* No headers, { "Host": "" } and { "X": "1", "x": "é" }
HeaderRecords == { <<>>, << <<<<72, 111, 115, 116>>, <<>>>> >>,
                   << <<<<88>>, <<49>>>>, <<<<120>>, <<233>>>> >> }

\* undefined, "", "é", Buffer.alloc(0) and a Buffer of the bytes 00 ff
RequestBodies == { NoBody, GivenString(<<>>), GivenString(<<233>>),
                   GivenBuffer(<<>>), GivenBuffer(<<0, 255>>) }

\* "a"
H2Host == <<97>>

\* sendRequest({ host, request }): the Promise executor has run.
SendRequest(request) ==
    /\ h2send' = [request |-> request,
                  requestData |->
                      buildRequest([method |-> request.method, path |-> request.path,
                                    headers |-> request.headers, body |-> request.body,
                                    authority |-> IF request.authority # <<>>
                                                  THEN request.authority ELSE H2Host,
                                    scheme |-> StrHttps]),
                  link |-> "connecting",
                  written |-> <<>>]
    /\ UNCHANGED <<frameCall, h2frames, h2response>>
    /\ UNCHANGED notFrameVars

\* socket.open of sendRequest: sock.write(requestData)
H2Open ==
    /\ h2send # <<>>
    /\ h2send.link = "connecting"
    /\ h2send' = [h2send EXCEPT !.link = "open",
                                !.written = Append(@, h2send.requestData)]
    /\ UNCHANGED <<frameCall, h2frames, h2response>>
    /\ UNCHANGED notFrameVars

\* socket.close / socket.end / connectError: the connection is gone.
H2Close ==
    /\ h2send # <<>>
    /\ h2send.link # "closed"
    /\ h2send' = [h2send EXCEPT !.link = "closed"]
    /\ UNCHANGED <<frameCall, h2frames, h2response>>
    /\ UNCHANGED notFrameVars

NextRequest ==
    \/ \E method \in RequestMethods, authority \in Authorities,
          headerRecord \in HeaderRecords, body \in RequestBodies :
           SendRequest([method |-> method, path |-> StrSlash, authority |-> authority,
                        headers |-> headerRecord, body |-> body])
    \/ H2Open
    \/ H2Close

SpecRequest == InitFrame /\ [][NextRequest]_vars

\* The frames that follow the preface in the bytes written.
FramesWritten == parseAllFrames(Subarray(h2send.written[1], 24, Len(h2send.written[1])))

\* The body as the caller's bytes, empty when there is none.
BodyGiven ==
    IF ~h2send.request.body.given THEN <<>>
    ELSE IF h2send.request.body.isBuffer THEN h2send.request.body.data
    ELSE Utf8Encode(h2send.request.body.data)

\* C22: nothing is written before open; on open one write holds the 24-byte
\* preface, a SETTINGS frame on stream 0, a HEADERS frame on stream 1 with
\* END_HEADERS and with END_STREAM exactly when there is no body, and exactly
\* when the body is non-empty a DATA frame on stream 1 with END_STREAM and
\* the body; one frame carries END_STREAM and nothing else is written.
C22_RequestBytesInOneWrite ==
    h2send # <<>> =>
        /\ h2send.link = "connecting" => h2send.written = <<>>
        /\ Len(h2send.written) <= 1
        /\ h2send.written # <<>> =>
            /\ SubSeq(h2send.written[1], 1, 24) = HTTP2_PREFACE
            /\ Len(FramesWritten) = IF BodyGiven # <<>> THEN 3 ELSE 2
            /\ 24 + Len(FramesWritten) * 9
                  + Len(ConcatPayloads(FramesWritten)) = Len(h2send.written[1])
            /\ FramesWritten[1].type = FrameTypeSETTINGS
            /\ FramesWritten[1].streamId = 0
            /\ FramesWritten[1].flags = 0
            /\ FramesWritten[2].type = FrameTypeHEADERS
            /\ FramesWritten[2].streamId = 1
            /\ HasFlag(FramesWritten[2].flags, FlagEND_HEADERS)
            /\ HasFlag(FramesWritten[2].flags, FlagEND_STREAM) <=> BodyGiven = <<>>
            /\ BodyGiven # <<>> =>
                /\ FramesWritten[3].type = FrameTypeDATA
                /\ FramesWritten[3].streamId = 1
                /\ FramesWritten[3].flags = FlagEND_STREAM
                /\ FramesWritten[3].payload = BodyGiven
            /\ Cardinality({ i \in 1..Len(FramesWritten) :
                               HasFlag(FramesWritten[i].flags, FlagEND_STREAM) }) = 1

\* C22 at work: a request with a non-empty string body has been written.
C22_BodyWritten ==
    /\ h2send # <<>>
    /\ h2send.written # <<>>
    /\ h2send.request.body = GivenString(<<233>>)
    /\ h2send.request.headers # <<>>

(***************************************************************************)
(* Http2FrameParser.extractResponse on the frames a peer sent: the peer's  *)
(* frames are kept with the header fields it encoded, and the parser is    *)
(* given their bytes.                                                      *)
(***************************************************************************)
MaxFrames == 3

\* "set-cookie"
StrSetCookie == <<115, 101, 116, 45, 99, 111, 111, 107, 105, 101>>

\* The header block of a list of fields, each encoded on its own.
RECURSIVE fieldBlock(_)
fieldBlock(fields) ==
    IF fields = <<>> THEN <<>>
    ELSE encodeHeaders(<<Head(fields)>>) \o fieldBlock(Tail(fields))

PeerHeaders(streamId, fields) ==
    [type |-> FrameTypeHEADERS, flags |-> FlagEND_HEADERS, streamId |-> streamId,
     fields |-> fields, payload |-> fieldBlock(fields)]

PeerData(streamId, payload) ==
    [type |-> FrameTypeDATA, flags |-> 0, streamId |-> streamId,
     fields |-> <<>>, payload |-> payload]

\* SETTINGS on stream 0; ":status: 200, set-cookie: a, set-cookie: b" and
\* the trailer "x: 1" on stream 1; ":status: 404" on streams 0 and 3; DATA
\* on streams 1 (twice), 0 and 3.
PeerFrames ==
    { [type |-> FrameTypeSETTINGS, flags |-> 0, streamId |-> 0, fields |-> <<>>,
       payload |-> <<>>],
      PeerHeaders(1, << <<StrStatus, Str200>>, <<StrSetCookie, <<97>>>>,
                        <<StrSetCookie, <<98>>>> >>),
      PeerHeaders(1, << <<<<120>>, <<49>>>> >>),
      PeerHeaders(0, << <<StrStatus, <<52, 48, 52>>>> >>),
      PeerHeaders(3, << <<StrStatus, <<52, 48, 52>>>> >>),
      PeerData(1, <<97>>), PeerData(1, <<98>>), PeerData(0, <<0>>),
      PeerData(3, <<99>>) }

\* The bytes of the peer's frames, as they arrive.
RECURSIVE InboundBytes(_)
InboundBytes(frames) ==
    IF frames = <<>> THEN <<>>
    ELSE buildFrame(Head(frames).type, Head(frames).flags,
                    UInt32Of(Head(frames).streamId), Head(frames).payload)
             \o InboundBytes(Tail(frames))

\* A frame of the peer arrives.
FrameArrives(frame) ==
    /\ Len(h2frames) < MaxFrames
    /\ h2frames' = Append(h2frames, frame)
    /\ h2response' = <<>>
    /\ UNCHANGED <<frameCall, h2send>>
    /\ UNCHANGED notFrameVars

\* new Http2FrameParser(): parseAllFrames(data), extractResponse(frames, streamId)
ExtractResponse(streamId) ==
    /\ h2frames # <<>>
    /\ h2response' =
           [streamId |-> streamId,
            result |-> extractResponse(parseAllFrames(InboundBytes(h2frames)),
                                       streamId, <<>>)]
    /\ UNCHANGED <<frameCall, h2send, h2frames>>
    /\ UNCHANGED notFrameVars

NextStream ==
    \/ \E frame \in PeerFrames : FrameArrives(frame)
    \/ \E streamId \in {1, 3} : ExtractResponse(streamId)

SpecStream == InitFrame /\ [][NextStream]_vars

\* The peer's frames with the stream id of the extracted response.
OwnFrames ==
    LET Own(f) == f.streamId = h2response.streamId
    IN  SelectSeq(h2frames, Own)

\* The fields of a list of frames, in order.
RECURSIVE FieldsOf(_)
FieldsOf(frames) ==
    IF frames = <<>> THEN <<>> ELSE Head(frames).fields \o FieldsOf(Tail(frames))

\* The multimap of the fields whose name does not start with ':'.
RECURSIVE Multimap(_, _)
Multimap(fields, acc) ==
    IF fields = <<>> THEN acc
    ELSE Multimap(Tail(fields),
                  IF Head(fields)[1][1] = 58 THEN acc
                  ELSE HeaderAdd(acc, Head(fields)[1], Head(fields)[2]))

\* The values of the ":status" fields.
StatusValues(fields) ==
    LET IsStatus(field) == field[1] = StrStatus
    IN  SelectSeq(fields, IsStatus)

\* The response, when there is one.
Extracted == h2response.result.response

HasResponse ==
    /\ h2response # <<>>
    /\ ~h2response.result.isNull
    /\ ~h2response.result.threw

\* What extractResponse gives for the frames of the stream alone.
OwnResponse == responseFromStream(OwnFrames, h2response.streamId, <<>>).response

\* C23: the response for a stream is built only from that stream's frames:
\* there is a response exactly when the stream has a HEADERS frame, its body
\* is the DATA payloads of the stream in arrival order, and its status and
\* headers are those of the stream's HEADERS frames; frames of other
\* streams, stream 0 included, change nothing.
C23_OnlyFramesOfTheStream ==
    h2response # <<>> =>
        /\ ~h2response.result.threw
        /\ h2response.result.isNull <=> SelectSeq(OwnFrames, IsHeadersFrame) = <<>>
        /\ ~h2response.result.isNull =>
            /\ Extracted.body = ConcatPayloads(SelectSeq(OwnFrames, IsDataFrame))
            /\ IF SelectSeq(OwnFrames, IsHeadersFrame) = <<>> THEN FALSE
               ELSE /\ Extracted.statusCode = OwnResponse.statusCode
                    /\ Extracted.headers = OwnResponse.headers

\* C24: the status code is the decoded ":status" of the stream, and the
\* multimap holds every other header of the stream's HEADERS frames in
\* arrival order, a repeated name with all its values.
C24_EveryHeaderOfTheStream ==
    HasResponse =>
        /\ StatusValues(FieldsOf(OwnFrames)) # <<>> =>
               Extracted.statusCode =
                   ParseIntJS(StatusValues(FieldsOf(OwnFrames))[1][2])
        /\ Extracted.headers = Multimap(FieldsOf(OwnFrames), <<>>)

(***************************************************************************)
(* ResponseParser.parse on the buffers a peer can send: a first line,      *)
(* header lines, each with its line ending, and optionally a blank line    *)
(* and a body.  Each line is kept with the name and value it carries.      *)
(***************************************************************************)
MaxLines == 3

\* "HTTP/1.1 200 OK", which matches the status-line pattern, and "BAD" and
\* "X: y", which do not.
FirstLines ==
    { [text |-> <<72, 84, 84, 80, 47, 49, 46, 49, 32, 50, 48, 48, 32, 79, 75>>,
       matches |-> TRUE],
      [text |-> <<66, 65, 68>>, matches |-> FALSE],
      [text |-> <<88, 58, 32, 121>>, matches |-> FALSE] }

\* "A: b", " a :c ", " :\tv" (an empty name), ":d" and "nocolon"
HeaderLines ==
    { [text |-> <<65, 58, 32, 98>>, isHeader |-> TRUE, name |-> <<97>>,
       value |-> <<98>>],
      [text |-> <<32, 97, 32, 58, 99, 32>>, isHeader |-> TRUE, name |-> <<97>>,
       value |-> <<99>>],
      [text |-> <<32, 58, 9, 118>>, isHeader |-> TRUE, name |-> <<>>,
       value |-> <<118>>],
      [text |-> <<58, 100>>, isHeader |-> FALSE, name |-> <<>>, value |-> <<>>],
      [text |-> <<110, 111, 99, 111, 108, 111, 110>>, isHeader |-> FALSE,
       name |-> <<>>, value |-> <<>>] }

\* The bytes of the lines, each followed by its line ending.
RECURSIVE LineBytes(_)
LineBytes(lines) ==
    IF lines = <<>> THEN <<>>
    ELSE Head(lines).text \o Head(lines).eol \o LineBytes(Tail(lines))

\* The buffer: the lines, then the blank line and the body when there are.
RawBuffer(input) == LineBytes(input.lines) \o input.rest

\* The peer sends the first line.
PeerFirstLine(line, eol) ==
    /\ parseInput.lines = <<>>
    /\ parseInput' = [parseInput EXCEPT
                          !.lines = <<[text |-> line.text, eol |-> eol, isHeader |-> FALSE,
                                       name |-> <<>>, value |-> <<>>,
                                       matches |-> line.matches]>>]
    /\ parseOutput' = <<>>
    /\ UNCHANGED notParseVars

\* The peer sends one more line of the header section.
PeerHeaderLine(line, eol) ==
    /\ parseInput.lines # <<>>
    /\ parseInput.rest = <<>>
    /\ Len(parseInput.lines) < MaxLines
    /\ parseInput' = [parseInput EXCEPT
                          !.lines = Append(@, [text |-> line.text, eol |-> eol,
                                               isHeader |-> line.isHeader,
                                               name |-> line.name, value |-> line.value,
                                               matches |-> FALSE])]
    /\ parseOutput' = <<>>
    /\ UNCHANGED notParseVars

\* The peer sends a blank line and the body "x".
PeerBlankLineAndBody(eol) ==
    /\ parseInput.lines # <<>>
    /\ parseInput.rest = <<>>
    /\ parseInput' = [parseInput EXCEPT !.rest = eol \o <<120>>]
    /\ parseOutput' = <<>>
    /\ UNCHANGED notParseVars

\* ResponseParser.parse(raw)
Parse ==
    /\ parseOutput' = [rawBuffer |-> RawBuffer(parseInput),
                       response |-> ResponseParser_parse(RawBuffer(parseInput))]
    /\ UNCHANGED parseInput
    /\ UNCHANGED notParseVars

NextParse ==
    \/ \E line \in FirstLines, eol \in {CRLF, LF} : PeerFirstLine(line, eol)
    \/ \E line \in HeaderLines, eol \in {CRLF, LF} : PeerHeaderLine(line, eol)
    \/ \E eol \in {CRLF, LF} : PeerBlankLineAndBody(eol)
    \/ Parse

InitParse ==
    /\ parseInput = [lines |-> <<>>, rest |-> <<>>]
    /\ parseOutput = <<>>
    /\ InitFrameUnused /\ InitTimingUnused /\ InitCodecUnused /\ InitNoConnection

SpecParse == InitParse /\ [][NextParse]_vars

\* The lines after the first that carry a header.
HeadersSent ==
    LET IsHeader(line) == line.isHeader
    IN  SelectSeq(parseInput.lines, IsHeader)

\* The values sent under a name, in arrival order.
ValuesSent(name) ==
    LET Named(line) == line.name = name
        sent == SelectSeq(HeadersSent, Named)
    IN  [i \in 1..Len(sent) |-> sent[i].value]

\* C25: parse returns a record for every buffer; when the first line does
\* not match the status-line pattern (or there is none) the record has a
\* parse error and status code 0, raw and rawBuffer are the input, and every
\* header line sent after the first line is in the headers.
C25_BadStatusLineKeepsHeaders ==
    (parseOutput # <<>> /\ (parseInput.lines = <<>> \/ ~parseInput.lines[1].matches)) =>
        /\ parseOutput.response.hasParseError
        /\ parseOutput.response.statusCode = 0
        /\ parseOutput.rawBuffer = RawBuffer(parseInput)
        /\ parseOutput.response.raw = RawBuffer(parseInput)
        /\ \A i \in 1..Len(HeadersSent) :
              \E j \in 1..Len(parseOutput.response.headers) :
                  /\ parseOutput.response.headers[j].name = HeadersSent[i].name
                  /\ \E k \in 1..Len(parseOutput.response.headers[j].values) :
                         parseOutput.response.headers[j].values[k] = HeadersSent[i].value

\* C25 at work: a buffer whose first line is "BAD", followed by two header
\* lines, has been parsed.
C25_BadStatusLineParsed ==
    /\ parseOutput # <<>>
    /\ Len(parseInput.lines) = MaxLines
    /\ ~parseInput.lines[1].matches
    /\ Len(HeadersSent) = MaxLines - 1

\* C26: the parsed headers have one key for each distinct trimmed,
\* lowercased name of the header lines with ':' at an index above 0 and no
\* other key, and the values under a key are the trimmed values of its
\* lines in arrival order, duplicates kept.
C26_OneKeyPerNameAllValues ==
    parseOutput # <<>> =>
        /\ \A i, j \in 1..Len(parseOutput.response.headers) :
              parseOutput.response.headers[i].name = parseOutput.response.headers[j].name
                  => i = j
        /\ { parseOutput.response.headers[i].name :
                 i \in 1..Len(parseOutput.response.headers) }
              = { HeadersSent[i].name : i \in 1..Len(HeadersSent) }
        /\ \A i \in 1..Len(parseOutput.response.headers) :
              parseOutput.response.headers[i].values
                  = ValuesSent(parseOutput.response.headers[i].name)

\* C26 at work: two lines with the name "a" in different spellings and with
\* different values have been parsed.
C26_DuplicateNameParsed ==
    /\ parseOutput # <<>>
    /\ \E i \in 1..Len(parseOutput.response.headers) :
           /\ Len(parseOutput.response.headers[i].values) = 2
           /\ parseOutput.response.headers[i].values[1]
                  # parseOutput.response.headers[i].values[2]

(***************************************************************************)
(* The TimingMetrics of the raw HTTP/1.x sends (src/src/client.ts):        *)
(* sendRaw, sendRawWithMultiResponse (pipelined) and sendViaHttpProxy with *)
(* an http target.  timed holds the timing object of the executor, the     *)
(* clock Date.now() reads, and the timing each resolved response carries;  *)
(* a field that was never assigned is -1.                                  *)
(***************************************************************************)
MaxClock == 3

MaxChunks == 2

\* { startTime: Date.now() }
NewTiming(start) ==
    [startTime |-> start, connectTime |-> -1, firstByteTime |-> -1, endTime |-> -1,
     connectionDuration |-> -1, ttfb |-> -1, totalDuration |-> -1]

\* The three sends, with and without collectTiming.
TimedSend(kind, collectTiming) ==
    /\ timed.link = "none"
    /\ timed' = [timed EXCEPT !.kind = kind, !.collectTiming = collectTiming,
                              !.timing = NewTiming(timed.clock),
                              !.link = "connecting"]
    /\ UNCHANGED notTimingVars

\* Time passes between two callbacks.
ClockTick ==
    /\ timed.clock < MaxClock
    /\ timed.link \in {"connecting", "open"}
    /\ timed' = [timed EXCEPT !.clock = @ + 1]
    /\ UNCHANGED notTimingVars

\* socket.open: if (collectTiming) timing.connectTime = Date.now()
TimedOpen ==
    /\ timed.link = "connecting"
    /\ timed' = [timed EXCEPT !.link = "open",
                              !.timing.connectTime =
                                  IF timed.collectTiming THEN timed.clock ELSE @]
    /\ UNCHANGED notTimingVars

\* The data handler once the bytes count as response data.
firstByte(t) ==
    IF t.collectTiming /\ t.timing.firstByteTime = -1
    THEN [t EXCEPT !.timing.firstByteTime = t.clock,
                   !.timing.ttfb = t.clock - t.timing.startTime,
                   !.chunks = @ + 1]
    ELSE [t EXCEPT !.chunks = @ + 1]

\* rejectOnce(error): the promise rejects and cleanup() ends the socket.
timedReject(t) ==
    IF t.resolved THEN t
    ELSE [t EXCEPT !.resolved = TRUE, !.settled = "rejected", !.link = "closed"]

\* socket.data: the proxied send first reads the reply to CONNECT, which
\* holds "200" or not.
TimedData(has200) ==
    /\ timed.link = "open"
    /\ timed.chunks < MaxChunks
    /\ timed' = IF timed.kind = "sendViaHttpProxy" /\ ~timed.tunnelEstablished
                THEN IF has200 THEN [timed EXCEPT !.tunnelEstablished = TRUE]
                     ELSE timedReject(timed)
                ELSE firstByte(timed)
    /\ UNCHANGED notTimingVars

\* resolveOnce of sendRaw: the response carries the timing object itself.
resolveOnceRaw(t) ==
    IF t.resolved THEN t
    ELSE IF t.collectTiming
    THEN LET timing == [t.timing EXCEPT
                            !.endTime = t.clock,
                            !.totalDuration = t.clock - t.timing.startTime,
                            !.connectionDuration =
                                IF t.timing.connectTime # -1 /\ t.timing.connectTime # 0
                                THEN t.timing.connectTime - t.timing.startTime
                                ELSE @]
         IN  [t EXCEPT !.resolved = TRUE, !.settled = "resolved", !.timing = timing,
                       !.responses = <<timing>>, !.link = "closed"]
    ELSE [t EXCEPT !.resolved = TRUE, !.settled = "resolved",
                   !.responses = <<NewTiming(-1)>>, !.link = "closed"]

\* resolveOnce of sendViaHttpProxy: no connectionDuration.
resolveOnceProxy(t) ==
    IF t.resolved THEN t
    ELSE IF t.collectTiming
    THEN LET timing == [t.timing EXCEPT
                            !.endTime = t.clock,
                            !.totalDuration = t.clock - t.timing.startTime]
         IN  [t EXCEPT !.resolved = TRUE, !.settled = "resolved", !.timing = timing,
                       !.responses = <<timing>>, !.link = "closed"]
    ELSE [t EXCEPT !.resolved = TRUE, !.settled = "resolved",
                   !.responses = <<NewTiming(-1)>>, !.link = "closed"]

\* resolveOnce(parseMultipleResponses(responseData)) of the pipelined send:
\* the argument is evaluated first and gives each response a copy
\* { ...timing }; resolveOnce then writes endTime and totalDuration to the
\* timing object.  The peer is taken to put one response in each chunk.
resolveOncePipelined(t) ==
    IF t.resolved THEN t
    ELSE [t EXCEPT !.resolved = TRUE, !.settled = "resolved",
                   !.responses = [i \in 1..t.chunks |->
                                     IF t.collectTiming THEN t.timing
                                     ELSE NewTiming(-1)],
                   !.timing = IF t.collectTiming
                              THEN [@ EXCEPT !.endTime = t.clock,
                                             !.totalDuration =
                                                 t.clock - t.timing.startTime]
                              ELSE @,
                   !.link = "closed"]

\* socket.close / socket.end
TimedEnd ==
    /\ timed.link = "open"
    /\ timed' = IF timed.kind = "sendRaw" THEN resolveOnceRaw(timed)
                ELSE IF timed.kind = "sendPipelined" THEN resolveOncePipelined(timed)
                ELSE IF timed.tunnelEstablished THEN resolveOnceProxy(timed)
                ELSE [timed EXCEPT !.link = "closed"]
    /\ UNCHANGED notTimingVars

\* The timer fires, or socket.error or connectError is delivered.
TimedFail ==
    /\ timed.link \in {"connecting", "open", "closed"}
    /\ ~timed.resolved
    /\ timed' = timedReject(timed)
    /\ UNCHANGED notTimingVars

NextTiming ==
    \/ \E kind \in {"sendRaw", "sendPipelined", "sendViaHttpProxy"},
          collectTiming \in BOOLEAN : TimedSend(kind, collectTiming)
    \/ ClockTick
    \/ TimedOpen
    \/ \E has200 \in BOOLEAN : TimedData(has200)
    \/ TimedEnd
    \/ TimedFail

InitTiming ==
    /\ timed = [kind |-> "none", collectTiming |-> FALSE, clock |-> 1,
                timing |-> NewTiming(-1), resolved |-> FALSE, settled |-> "no",
                tunnelEstablished |-> FALSE, link |-> "none", chunks |-> 0,
                responses |-> <<>>]
    /\ InitFrameUnused /\ InitParseUnused /\ InitCodecUnused /\ InitNoConnection

SpecTiming == InitTiming /\ [][NextTiming]_vars

\* C27: with collectTiming, every response a raw HTTP/1.x send resolves
\* with carries total = end - start and connection = connect - start, and
\* ttfb = first_byte - start once a byte of the response was received.
C27_DurationsOnEveryResponse ==
    (timed.settled = "resolved" /\ timed.collectTiming) =>
        \A i \in 1..Len(timed.responses) :
            /\ timed.responses[i].endTime # -1
            /\ timed.responses[i].totalDuration
                  = timed.responses[i].endTime - timed.responses[i].startTime
            /\ timed.responses[i].connectTime # -1
            /\ timed.responses[i].connectionDuration
                  = timed.responses[i].connectTime - timed.responses[i].startTime
            /\ timed.chunks > 0 =>
                  /\ timed.responses[i].firstByteTime # -1
                  /\ timed.responses[i].ttfb
                        = timed.responses[i].firstByteTime
                              - timed.responses[i].startTime

(***************************************************************************)
(* RawHttp.sendPipelined: the requests become one string, which is the     *)
(* data the open handler of sendRawWithMultiResponse writes.               *)
(***************************************************************************)
\* The requests of a caller, as strings: "GET /a\r\n\r\n", "POST /é\n\n",
\* "GET /c\r\n\r\n", ...
CallerRequests ==
    [i \in 1..MaxRequests |->
        IF i % 2 = 1 THEN <<71, 69, 84, 32, 47, 96 + i, 13, 10, 13, 10>>
        ELSE <<80, 79, 83, 84, 32, 47, 233, 10, 10>>]

\* for (const req of requests) pipelinedData += req
RECURSIVE pipelinedData(_)
pipelinedData(requests) ==
    IF requests = <<>> THEN <<>>
    ELSE pipelinedData(SubSeq(requests, 1, Len(requests) - 1))
             \o requests[Len(requests)]

\* The bytes sock.write(data) sends for the data of a pipelined send of the
\* first n requests of the caller, for each n.
PipelinedBytes ==
    [n \in 1..MaxRequests |-> Utf8Encode(pipelinedData(SubSeq(CallerRequests, 1, n)))]

\* The bytes of each request on its own.
RequestBytes == [i \in 1..MaxRequests |-> Utf8Encode(CallerRequests[i])]

\* The bytes of the requests before request i.
RECURSIVE BytesBefore(_)
BytesBefore(i) ==
    IF i = 1 THEN 0 ELSE BytesBefore(i - 1) + Len(RequestBytes[i - 1])

\* The data of every pipelined send holds its requests one after the other
\* in the caller's order, and nothing else.
RequestsInOrder ==
    \A n \in 1..MaxRequests :
        /\ \A i \in 1..n :
              SubSeq(PipelinedBytes[n], BytesBefore(i) + 1, BytesBefore(i + 1))
                  = RequestBytes[i]
        /\ Len(PipelinedBytes[n]) = BytesBefore(n + 1)

\* What holds of a pipelined send r at every moment.
PipelinedOrder(r) ==
    /\ r.link = "connecting" => (r.writes = <<>> /\ r.responseData = <<>>)
    /\ r.writes \in {<<>>, <<"data">>}
    /\ r.responseData # <<>> => r.writes = <<"data">>
    /\ r.chunks = 0 => r.responseData = <<>>
    /\ r.chunks = 1 => r.responseData = r.reply
    /\ r.chunks = 2 => \E chunk \in HttpChunks : r.responseData = r.reply \o chunk
    /\ RequestsInOrder

\* C28: a pipelined send writes the requests, concatenated in the caller's
\* order, in one write on open and before any inbound byte is kept; the
\* inbound chunks are appended in arrival order, and the splitter is given
\* exactly their concatenation.
C28_PipelinedWriteThenAppend ==
    [][/\ op'.args.kind = "sendPipelined" => PipelinedOrder(op')
       /\ PipelinedResolves =>
              Head(op'.completions).value
                  = parseMultipleResponses(op'.responseData,
                                           op'.args.expectedResponses)]_vars

\* C28 at work: a pipelined send of two requests resolved after two
\* different chunks arrived.
C28_TwoChunksResolved ==
    /\ op.args.kind = "sendPipelined"
    /\ op.args.expectedResponses = 2
    /\ op.chunks = 2
    /\ op.responseData # op.reply \o op.reply
    /\ Completed
    /\ Outcome.type = "resolve"

(***************************************************************************)
(* The pool hands out open sockets only                                    *)
(***************************************************************************)
\* C29: acquire never returns a connection whose socket the pool has ended:
\* in the step in which a call of acquire returns, immediately or from its
\* wait, the socket of the connection it returns was never ended by a sweep
\* or by destroy.
C29_AcquiredSocketIsOpen ==
    [][\A p \in Calls :
          (proc[p].pc # "holding" /\ proc'[p].pc = "holding")
              => conn'[proc'[p].held].ended = 0]_vars

(***************************************************************************)
(* Writes of a send that has completed                                     *)
(***************************************************************************)
\* C30: once a send has resolved or rejected, nothing more is written to
\* its socket: no later open or data event adds a write.
C30_NoWriteAfterCompletion ==
    [][(Completed /\ sends' = sends) => op'.writes = op.writes]_vars

(***************************************************************************)
(* Every send completes.  The runtime runs the callback of an armed timer  *)
(* once its delay has passed, so the timer step is weakly fair; nothing is *)
(* assumed of the peer, who may stay silent for ever.  The peer of a       *)
(* sendRequest may also send a HEADERS frame whose PRIORITY flag is set    *)
(* and whose payload is shorter than the five priority bytes.              *)
(***************************************************************************)
\* HEADERS, END_HEADERS | PRIORITY, stream 1, payload 0x88 alone
FrameHeadersCutPriority == <<0, 0, 1, 1, 36, 0, 0, 0, 1, 136>>

NextLive ==
    \/ Next
    \/ op.args.kind = "sendRequest" /\ Data(FrameHeadersCutPriority)

SpecLive == Init /\ [][NextLive]_vars /\ WF_vars(Timer)

\* C31: every send eventually completes: given only that an armed timer
\* eventually fires, the n-th send, once called, resolves or rejects,
\* whatever the peer does.
C31_EverySendCompletes ==
    \A n \in 1..MaxSends : (sends = n) ~> (sends = n /\ Completed)

(***************************************************************************)
(* The proxied send (sendViaHttpProxy): the CONNECT request, the caller's  *)
(* bytes and the response data.                                            *)
(***************************************************************************)
\* "CONNECT "
StrCONNECT == <<67, 79, 78, 78, 69, 67, 84, 32>>

\* " HTTP/1.1\r\nHost: "
StrHttp11Host == <<32, 72, 84, 84, 80, 47, 49, 46, 49, 13, 10, 72, 111, 115, 116, 58, 32>>

\* "Proxy-Authorization: Basic "
StrProxyAuthorization ==
    <<80, 114, 111, 120, 121, 45, 65, 117, 116, 104, 111, 114, 105, 122, 97, 116, 105,
      111, 110, 58, 32, 66, 97, 115, 105, 99, 32>>

\* The character of a 6-bit value in the base64 alphabet.
Base64Char(v) ==
    IF v < 26 THEN 65 + v
    ELSE IF v < 52 THEN 97 + (v - 26)
    ELSE IF v < 62 THEN 48 + (v - 52)
    ELSE IF v = 62 THEN 43 ELSE 47

\* buffer.toString("base64")
RECURSIVE ToBase64(_)
ToBase64(bytes) ==
    IF bytes = <<>> THEN <<>>
    ELSE IF Len(bytes) = 1
    THEN <<Base64Char(bytes[1] \div 4), Base64Char((bytes[1] % 4) * 16), 61, 61>>
    ELSE IF Len(bytes) = 2
    THEN <<Base64Char(bytes[1] \div 4),
           Base64Char((bytes[1] % 4) * 16 + bytes[2] \div 16),
           Base64Char((bytes[2] % 16) * 4), 61>>
    ELSE <<Base64Char(bytes[1] \div 4),
           Base64Char((bytes[1] % 4) * 16 + bytes[2] \div 16),
           Base64Char((bytes[2] % 16) * 4 + bytes[3] \div 64),
           Base64Char(bytes[3] % 64)>>
             \o ToBase64(SubSeq(bytes, 4, Len(bytes)))

\* proxy.auth when the caller gave none
NoAuth == [given |-> FALSE, username |-> <<>>, password |-> <<>>]

\* proxy.auth = { username, password }
Auth(username, password) ==
    [given |-> TRUE, username |-> username, password |-> password]

\* The CONNECT request sendViaHttpProxy builds from the target and proxy.auth.
connectRequest(host, port, auth) ==
    LET target == host \o <<58>> \o NatToString(port)
        line   == StrCONNECT \o target \o StrHttp11Host \o target \o CRLF
    IN  (IF auth.given
         THEN line \o StrProxyAuthorization
                \o ToBase64(Utf8Encode(auth.username \o <<58>> \o auth.password))
                \o CRLF
         ELSE line)
          \o CRLF

\* The proxy credentials of the callers, each with the base64 text of
\* "username:password": none, "" and "", "u" and "", "a" and "b", "é" and "p".
ProxyAuths ==
    { [auth |-> NoAuth, basic |-> <<>>],
      [auth |-> Auth(<<>>, <<>>), basic |-> <<79, 103, 61, 61>>],
      [auth |-> Auth(<<117>>, <<>>), basic |-> <<100, 84, 111, 61>>],
      [auth |-> Auth(<<97>>, <<98>>), basic |-> <<89, 84, 112, 105>>],
      [auth |-> Auth(<<233>>, <<112>>), basic |-> <<119, 54, 107, 54, 99, 65, 61, 61>>] }

\* The targets: "a":80, "a.io":8080
ProxyTargets == { [host |-> <<97>>, port |-> 80], [host |-> <<97, 46, 105, 111>>, port |-> 8080] }

\* The lines of a CONNECT request are the request line, the Host line, the
\* Proxy-Authorization line exactly when credentials are given, and the empty
\* line that ends it.
ConnectRequestLines ==
    \A t \in ProxyTargets : \A a \in ProxyAuths :
        LET target == t.host \o <<58>> \o NatToString(t.port)
            lines  == SplitLines(connectRequest(t.host, t.port, a.auth))
        IN  /\ lines[1] = StrCONNECT \o target \o <<32>> \o StrHTTPSlash \o Str11
            /\ lines[2] = <<72, 111, 115, 116>> \o ColonSpace \o target
            /\ IF a.auth.given
               THEN /\ Len(lines) = 5
                    /\ lines[3] = StrProxyAuthorization \o a.basic
               ELSE Len(lines) = 4
            /\ lines[Len(lines) - 1] = <<>>
            /\ lines[Len(lines)] = <<>>
            /\ IndexOf(connectRequest(t.host, t.port, a.auth), <<10>>, 0)
                   = Len(lines[1]) + 1

\* A step of one proxied send.
ProxiedStep ==
    /\ op'.args.kind = "sendViaProxy"
    /\ sends' = sends

\* C32: on the proxied path the first bytes written to the proxy socket are
\* the CONNECT request, with the Proxy-Authorization line exactly when
\* credentials are configured; the caller's bytes are written only in the
\* step in which a reply of the proxy establishes the tunnel, hence at most
\* once; only chunks received after the tunnel was established are added to
\* the response data, and the response data is what is parsed.
C32_ConnectThenTunnelThenData ==
    [][/\ op'.args.kind = "sendViaProxy" =>
              /\ op'.writes \in {<<>>, <<"connectRequest">>, <<"connectRequest", "data">>}
              /\ ConnectRequestLines
       /\ ProxiedStep =>
              /\ op'.writes # op.writes /\ op.writes # <<>> =>
                     /\ op'.chunks = op.chunks + 1
                     /\ ~op.tunnelEstablished
                     /\ op'.tunnelEstablished
              /\ op'.chunks = op.chunks + 1 =>
                     IF op.tunnelEstablished
                     THEN \E chunk \in ChunksFor("sendViaProxy") :
                              op'.responseData = op.responseData \o chunk
                     ELSE op'.responseData = <<>>
              /\ op'.chunks = op.chunks => op'.responseData = op.responseData
              /\ (~Completed /\ op'.completions # <<>>
                      /\ Head(op'.completions).type = "resolve") =>
                     /\ op.tunnelEstablished
                     /\ Head(op'.completions).value
                            = ResponseParser_parse(op.responseData)]_vars

\* C32 at work: a proxied send wrote the CONNECT request, then the caller's
\* bytes once the proxy had replied, and resolved with a response received
\* after that.
C32_ResolvedThroughTunnel ==
    /\ op.args.kind = "sendViaProxy"
    /\ op.writes = <<"connectRequest", "data">>
    /\ op.chunks = 2
    /\ op.responseData # <<>>
    /\ Completed
    /\ Outcome.type = "resolve"
    /\ Outcome.value.statusCode = 404

(***************************************************************************)
(* The body length rules of parseMultipleResponses.  A peer answers each   *)
(* pipelined request with a response made of a status line, header fields  *)
(* and a body whose length follows from the fields.                        *)
(***************************************************************************)
\* "HTTP/1.1 200 OK"
StatusLine200 == <<72, 84, 84, 80, 47, 49, 46, 49, 32, 50, 48, 48, 32, 79, 75>>

\* "Content-Length"
NameContentLength == <<67, 111, 110, 116, 101, 110, 116, 45, 76, 101, 110, 103, 116, 104>>

\* "Transfer-Encoding"
NameTransferEncoding ==
    <<84, 114, 97, 110, 115, 102, 101, 114, 45, 69, 110, 99, 111, 100, 105, 110, 103>>

\* "X-Content-Length"
NameXContentLength ==
    <<88, 45, 67, 111, 110, 116, 101, 110, 116, 45, 76, 101, 110, 103, 116, 104>>

\* "Server"
NameServer == <<83, 101, 114, 118, 101, 114>>

Field(name, value) == [name |-> name, value |-> value]

\* The responses of the peer: Content-Length: 2 and "ab"; Content-Length: 2
\* with Transfer-Encoding: chunked and "ab"; chunked with the chunks "a" and
\* the last one; no field; Server: x; X-Content-Length: 3; Content-Length: 2
\* and the two bytes of "é".
DelimitedResponses ==
    { [fields |-> <<Field(NameContentLength, <<50>>)>>, body |-> <<97, 98>>],
      [fields |-> <<Field(NameContentLength, <<50>>),
                    Field(NameTransferEncoding, StrChunked)>>,
       body |-> <<97, 98>>],
      [fields |-> <<Field(NameTransferEncoding, StrChunked)>>,
       body |-> <<49, 13, 10, 97, 13, 10, 48, 13, 10, 13, 10>>],
      [fields |-> <<>>, body |-> <<>>],
      [fields |-> <<Field(NameServer, <<120>>)>>, body |-> <<>>],
      [fields |-> <<Field(NameXContentLength, <<51>>)>>, body |-> <<>>],
      [fields |-> <<Field(NameContentLength, <<50>>)>>, body |-> <<195, 169>>] }

RECURSIVE FieldLines(_)
FieldLines(fields) ==
    IF fields = <<>> THEN <<>>
    ELSE Head(fields).name \o ColonSpace \o Head(fields).value \o CRLF
             \o FieldLines(Tail(fields))

\* The bytes of a response.
ResponseBytes(r) ==
    Utf8Encode(StatusLine200 \o CRLF \o FieldLines(r.fields) \o CRLF) \o r.body

HasField(fields, name) ==
    \E i \in 1..Len(fields) : ToLowerCase(fields[i].name) = ToLowerCase(name)

FieldValue(fields, name) ==
    fields[CHOOSE i \in 1..Len(fields) :
               ToLowerCase(fields[i].name) = ToLowerCase(name)].value

\* The number of bytes after the separator that belong to a response with
\* these fields, following being the bytes after the separator: N with
\* Content-Length: N, else up to the end of the first "0\r\n\r\n" with
\* Transfer-Encoding: chunked, else none.
RuleLength(fields, following) ==
    IF HasField(fields, NameContentLength)
    THEN ParseInt(FieldValue(fields, NameContentLength))
    ELSE IF HasField(fields, NameTransferEncoding)
              /\ FieldValue(fields, NameTransferEncoding) = StrChunked
    THEN IndexOf(following, ChunkedTerminator, 0) + 5
    ELSE 0

\* The body of every response of the peer is as long as the rules say.
BodiesFollowRules ==
    \A r \in DelimitedResponses : RuleLength(r.fields, r.body) = Len(r.body)

NextDelimit == \E r \in DelimitedResponses : ReceiveAll(ResponseBytes(r))

SpecDelimit == InitSplit /\ [][NextDelimit]_vars

\* C33: each response of a pipelined buffer, in order, ends where the first
\* applicable rule says: N bytes after the separator with Content-Length: N,
\* also when Transfer-Encoding: chunked is present; else 5 bytes after the
\* first "0\r\n\r\n" with Transfer-Encoding: chunked; else at the separator;
\* no other header has a say.  For a peer whose responses follow the rules,
\* the splitter returns the bytes of each response.
C33_EndsByFirstApplicableRule ==
    /\ BodiesFollowRules
    /\ Len(split) = Len(inbound)
    /\ \A i \in 1..Len(inbound) :
          i <= Len(split) => Utf8Encode(split[i].raw) = inbound[i]

(***************************************************************************)
(* One HpackDecoder over several calls of decodeHeaders.  The peer sends   *)
(* blocks of fields; decoderLog counts the calls and keeps the pairs the   *)
(* peer's fields added to the table since it was last emptied, oldest      *)
(* first.                                                                  *)
(***************************************************************************)
MaxDecodes == 3

\* The fields of the peer, each with its bytes: indexed 8 (:status 200), 62
\* and 63; with incremental indexing "a: 1", "b: 2" and the name of entry 62
\* with the value "3"; without indexing "c: 4"; never indexed, the name of
\* entry 62 with the value "5"; the size updates 0 and 1.
PeerFields ==
    { [kind |-> "indexed", index |-> 8, name |-> <<>>, value |-> <<>>,
       bytes |-> <<136>>],
      [kind |-> "indexed", index |-> 62, name |-> <<>>, value |-> <<>>,
       bytes |-> <<190>>],
      [kind |-> "indexed", index |-> 63, name |-> <<>>, value |-> <<>>,
       bytes |-> <<191>>],
      [kind |-> "incremental", index |-> 0, name |-> <<97>>, value |-> <<49>>,
       bytes |-> <<64, 1, 97, 1, 49>>],
      [kind |-> "incremental", index |-> 0, name |-> <<98>>, value |-> <<50>>,
       bytes |-> <<64, 1, 98, 1, 50>>],
      [kind |-> "incremental", index |-> 62, name |-> <<>>, value |-> <<51>>,
       bytes |-> <<126, 1, 51>>],
      [kind |-> "without", index |-> 0, name |-> <<99>>, value |-> <<52>>,
       bytes |-> <<0, 1, 99, 1, 52>>],
      [kind |-> "never", index |-> 62, name |-> <<>>, value |-> <<53>>,
       bytes |-> <<31, 47, 1, 53>>],
      [kind |-> "size", index |-> 0, name |-> <<>>, value |-> <<>>,
       bytes |-> <<32>>],
      [kind |-> "size", index |-> 1, name |-> <<>>, value |-> <<>>,
       bytes |-> <<33>>] }

\* The blocks of the peer: one field or two.
PeerBlocks ==
    { <<f>> : f \in PeerFields } \cup { <<f, g>> : f \in PeerFields, g \in PeerFields }

RECURSIVE BlockBytes(_)
BlockBytes(block) ==
    IF block = <<>> THEN <<>> ELSE Head(block).bytes \o BlockBytes(Tail(block))

\* The name a field with incremental indexing stands for, inserted being the
\* pairs added so far, oldest first: its own, or that of the entry it names
\* (none when there is no such entry).
NameFor(inserted, f) ==
    IF f.index = 0 THEN f.name
    ELSE IF f.index - 62 < Len(inserted)
    THEN inserted[Len(inserted) - (f.index - 62)][1]
    ELSE <<>>

\* The pairs added after a block: a field with incremental indexing adds
\* one, a size update of 0 drops all, every other field changes nothing.
RECURSIVE InsertedAfter(_, _)
InsertedAfter(inserted, block) ==
    IF block = <<>> THEN inserted
    ELSE InsertedAfter(
             IF Head(block).kind = "incremental"
             THEN Append(inserted, <<NameFor(inserted, Head(block)), Head(block).value>>)
             ELSE IF Head(block).kind = "size" /\ Head(block).index = 0 THEN <<>>
             ELSE inserted,
             Tail(block))

\* this.hpackDecoder.decodeHeaders(block) on the decoder of the client
DecodeBlock(block) ==
    /\ decoderLog.calls < MaxDecodes
    /\ dynamicTable' = decodeHeaders(BlockBytes(block), dynamicTable).table
    /\ decoderLog' = [calls    |-> decoderLog.calls + 1,
                      inserted |-> InsertedAfter(decoderLog.inserted, block)]
    /\ UNCHANGED <<op, sends, framing>>
    /\ UNCHANGED notCodecVars

NextDecoder == \E block \in PeerBlocks : DecodeBlock(block)

InitDecoder ==
    /\ decoderLog = [calls |-> 0, inserted |-> <<>>]
    /\ framing = <<>>
    /\ InitSend /\ InitPoolUnused /\ InitSplitUnused /\ InitBuilderUnused
    /\ InitHpackUnused /\ InitFrameUnused /\ InitParseUnused /\ InitTimingUnused

SpecDecoder == InitDecoder /\ [][NextDecoder]_vars

\* C34: across the calls on one decoder the dynamic table is in
\* most-recently-inserted-first order: index 62 is the pair added last,
\* index 62 + k the pair added k insertions before it, and there is no entry
\* beyond; indexed fields and literals without indexing leave it as it is,
\* and a size update of 0 empties it.
C34_TableMostRecentFirst ==
    LET inserted == decoderLog.inserted
        n        == Len(inserted)
    IN  /\ \A k \in 0..(n - 1) : getTableEntry(dynamicTable, 62 + k) = inserted[n - k]
        /\ getTableEntry(dynamicTable, 62 + n) = <<>>

\* C34 at work: after three calls the table holds three different pairs,
\* one of them named after an earlier entry.
C34_ThreePairsOverCalls ==
    /\ decoderLog.calls = 3
    /\ Len(decoderLog.inserted) = 3
    /\ decoderLog.inserted[1] # decoderLog.inserted[2]
    /\ decoderLog.inserted[3] = <<decoderLog.inserted[2][1], <<51>>>>

(***************************************************************************)
(* Http2FrameParser.parseAllFrames on the bytes a peer sent: whole frames  *)
(* and pieces of frames, in any order.                                     *)
(***************************************************************************)
MaxPieces == 3

\* An empty SETTINGS frame; a DATA frame of one byte on stream 1 with the
\* reserved bit set; a HEADERS frame of two bytes on stream 3; the first
\* three bytes of a frame header; a frame header that declares two bytes
\* with one of them; one byte 0xff.
Pieces ==
    { <<0, 0, 0, 4, 0, 0, 0, 0, 0>>,
      <<0, 0, 1, 0, 1, 128, 0, 0, 1, 120>>,
      <<0, 0, 2, 1, 4, 0, 0, 0, 3, 136, 130>>,
      <<0, 0, 1>>,
      <<0, 0, 2, 0, 0, 0, 0, 0, 1, 97>>,
      <<255>> }

\* The peer sends some more bytes.
PeerSends(piece) ==
    /\ framing.pieces < MaxPieces
    /\ framing' = [pieces |-> framing.pieces + 1, buffer |-> framing.buffer \o piece,
                   parsed |-> FALSE, frames |-> <<>>]
    /\ UNCHANGED <<decoderLog, sendVars>>
    /\ UNCHANGED notCodecVars

\* parseAllFrames(buffer)
ParseAllFrames ==
    /\ ~framing.parsed
    /\ framing' = [framing EXCEPT !.parsed = TRUE,
                                  !.frames = parseAllFrames(framing.buffer)]
    /\ UNCHANGED <<decoderLog, sendVars>>
    /\ UNCHANGED notCodecVars

NextFraming ==
    \/ \E piece \in Pieces : PeerSends(piece)
    \/ ParseAllFrames

InitFraming ==
    /\ framing = [pieces |-> 0, buffer |-> <<>>, parsed |-> FALSE, frames |-> <<>>]
    /\ decoderLog = <<>>
    /\ InitSendUnused /\ InitPoolUnused /\ InitSplitUnused /\ InitBuilderUnused
    /\ InitHpackUnused /\ InitFrameUnused /\ InitParseUnused /\ InitTimingUnused

SpecFraming == InitFraming /\ [][NextFraming]_vars

\* The frames built again, one after the other.
RECURSIVE Serialize(_)
Serialize(frames) ==
    IF frames = <<>> THEN <<>>
    ELSE buildFrame(Head(frames).type, Head(frames).flags,
                    UInt32Of(Head(frames).streamId), Head(frames).payload)
             \o Serialize(Tail(frames))

\* The frames built again are the bytes of the buffer from offset on, but
\* for the reserved bit of each stream identifier.
RECURSIVE SameButReserved(_, _, _)
SameButReserved(buffer, frames, offset) ==
    IF frames = <<>> THEN TRUE
    ELSE LET bytes == Serialize(<<Head(frames)>>)
             n     == Len(bytes)
         IN  /\ offset + n <= Len(buffer)
             /\ \A i \in 1..n :
                   IF i = 6 THEN buffer[offset + i] % 128 = bytes[i]
                   ELSE buffer[offset + i] = bytes[i]
             /\ SameButReserved(buffer, Tail(frames), offset + n)

\* What parseAllFrames left unconsumed.
Unconsumed ==
    SubSeq(framing.buffer, Len(Serialize(framing.frames)) + 1, Len(framing.buffer))

\* C35 (as amended): parseAllFrames returns the longest sequence of complete
\* frames from the start of the buffer: the returned frames, built again,
\* are a prefix of the buffer but for the reserved bit of each stream
\* identifier, which is parsed away, and the unconsumed rest is empty,
\* shorter than 9 bytes, or shorter than 9 plus the length it declares.
C35_LongestPrefixButReserved ==
    framing.parsed =>
        /\ SameButReserved(framing.buffer, framing.frames, 0)
        /\ \/ Unconsumed = <<>>
           \/ Len(Unconsumed) < 9
           \/ Len(Unconsumed) < 9 + ReadUInt24BE(Unconsumed, 0)

\* C35 at work: two frames were returned, the first sent with its reserved
\* bit set, and a frame header with a part of its payload is left over.
C35_TwoFramesAndARest ==
    /\ framing.parsed
    /\ Len(framing.frames) = 2
    /\ framing.buffer[6] = 128
    /\ Len(Unconsumed) = 10

\* C35: the returned frames, built again, are a prefix of the buffer.
C35_ReserializedIsPrefix ==
    framing.parsed =>
        /\ Len(Serialize(framing.frames)) <= Len(framing.buffer)
        /\ Serialize(framing.frames)
               = SubSeq(framing.buffer, 1, Len(Serialize(framing.frames)))

(***************************************************************************)
(* The while loop of HpackDecoder.decodeHeaders, one iteration a step, on  *)
(* blocks a peer makes of whole, cut and malformed fields.                 *)
(***************************************************************************)
MaxParts == 3

\* An indexed field; the literal "a: b" with incremental indexing; an indexed
\* field whose integer goes on past the end; a literal whose name is said to
\* be 5 bytes long; a size update; a literal without indexing whose name
\* length is 0x7f with the continuation f9 fe ff ff 0f.
BlockParts ==
    { <<136>>,
      <<64, 1, 97, 1, 98>>,
      <<255, 255>>,
      <<64, 5, 97>>,
      <<32>>,
      <<0, 127, 249, 254, 255, 255, 15>> }

\* The caller puts one more part into the block.
AddPart(part) ==
    /\ decoderLog.phase = "filling"
    /\ decoderLog.parts < MaxParts
    /\ decoderLog' = [decoderLog EXCEPT !.parts = @ + 1, !.buffer = @ \o part]
    /\ UNCHANGED <<framing, sendVars>>
    /\ UNCHANGED notCodecVars

\* decodeHeaders(buffer) is called: headers = new Map(), offset = 0
CallDecodeHeaders ==
    /\ decoderLog.phase = "filling"
    /\ decoderLog' = [decoderLog EXCEPT !.phase = "looping"]
    /\ UNCHANGED <<framing, sendVars>>
    /\ UNCHANGED notCodecVars

\* One iteration of while (offset < buffer.length); before keeps the offset
\* the iteration started at.
Iterate ==
    /\ decoderLog.phase = "looping"
    /\ decoderLog.offset < Len(decoderLog.buffer)
    /\ LET st == decodeField(decoderLog.buffer,
                             [offset |-> decoderLog.offset,
                              headers |-> decoderLog.headers,
                              table |-> dynamicTable])
       IN  /\ decoderLog' = [decoderLog EXCEPT !.iterated = TRUE,
                                               !.before = decoderLog.offset,
                                               !.offset = st.offset,
                                               !.headers = st.headers]
           /\ dynamicTable' = st.table
    /\ UNCHANGED <<op, sends, framing>>
    /\ UNCHANGED notCodecVars

\* The loop ends: return headers
ReturnHeaders ==
    /\ decoderLog.phase = "looping"
    /\ ~(decoderLog.offset < Len(decoderLog.buffer))
    /\ decoderLog' = [decoderLog EXCEPT !.phase = "returned"]
    /\ UNCHANGED <<framing, sendVars>>
    /\ UNCHANGED notCodecVars

NextDecodeLoop ==
    \/ \E part \in BlockParts : AddPart(part)
    \/ CallDecodeHeaders
    \/ Iterate
    \/ ReturnHeaders

InitDecodeLoop ==
    /\ decoderLog = [phase |-> "filling", parts |-> 0, buffer |-> <<>>, offset |-> 0,
                     before |-> 0, iterated |-> FALSE, headers |-> <<>>]
    /\ framing = <<>>
    /\ InitSend /\ InitPoolUnused /\ InitSplitUnused /\ InitBuilderUnused
    /\ InitHpackUnused /\ InitFrameUnused /\ InitParseUnused /\ InitTimingUnused

SpecDecodeLoop == InitDecodeLoop /\ [][NextDecodeLoop]_vars

\* C36: decodeHeaders terminates on every byte sequence, truncated and
\* malformed blocks included: every iteration of its loop consumes at least
\* one byte, so that the offset passes the end of the buffer.
C36_EveryIterationConsumes ==
    decoderLog.iterated => decoderLog.offset > decoderLog.before

(***************************************************************************)
(* The setters of the target of one builder: url, host, port, scheme and   *)
(* path, in any order, and the URL buildUrl() makes of them.               *)
(***************************************************************************)
\* port(p)
Port(i, p) == Assign(i, [builders[i] EXCEPT !._port = p])

\* "https://h/p" and "n", which new URL() does not accept
UrlsGiven == { UrlHttps, <<110>> }

\* "h" and "g"
HostsGiven == { <<104>>, <<103>> }

PortsGiven == { 80, 443, 8080 }

\* "/p" and "/"
PathsGiven == { StrSlashP, StrSlash }

NextUrl ==
    \/ \E u \in UrlsGiven : Url(1, u)
    \/ \E h \in HostsGiven : Host(1, h)
    \/ \E p \in PortsGiven : Port(1, p)
    \/ \E sch \in {"http", "https"} : Scheme(1, sch)
    \/ \E pth \in PathsGiven : Path(1, pth)

SpecUrl == InitBuilderOnly /\ [][NextUrl]_vars

\* scheme + "://" + host + optional ":port" + path of the fields of a builder,
\* the port left out when it is the default of the scheme.
UrlOfParts(this) ==
    SchemeText(this._scheme) \o StrColonSlashSlash \o this._host
        \o (IF \/ (this._scheme = "https" /\ this._port = 443)
               \/ (this._scheme = "http" /\ this._port = 80)
            THEN <<>>
            ELSE <<58>> \o NatToString(this._port))
        \o this._path

\* C37: after any sequence of url, host, port, scheme and path calls that
\* leaves the builder with a host, buildUrl() is scheme + "://" + host +
\* optional ":port" + path of the builder's current fields, the default port
\* left out.
C37_UrlOfCurrentParts ==
    builders[1]._host # <<>> => buildUrl(builders[1]) = UrlOfParts(builders[1])

(***************************************************************************)
(* The two HTTP/2 projections of a builder whose Host header was added as  *)
(* a structured or as a raw entry.                                         *)
(***************************************************************************)
\* buildHttp2Request() on a raw line: as buildHttp2Headers(), but a line
\* whose name is host is skipped too.
http2RequestRawHeader(headers, raw) ==
    LET colonIdx == IndexOf(raw, <<58>>, 0)
    IN  IF colonIdx > 0
        THEN CHOOSE out \in
                 { IF name # <<>> /\ name[1] # 58 /\ name # StrHost
                   THEN MapSet(headers, name, value)
                   ELSE headers :
                       name \in {ToLowerCase(Trim(Substring(raw, 0, colonIdx)))},
                       value \in {Trim(SubstringFrom(raw, colonIdx + 1))} } : TRUE
        ELSE headers

\* The loop of buildHttp2Request() from entry i on; headers is the Record so
\* far.
RECURSIVE http2RequestHeaders(_, _, _)
http2RequestHeaders(entries, i, headers) ==
    IF i > Len(entries) THEN headers
    ELSE LET h == entries[i]
             after == IF h.hasRaw /\ h.raw # <<>>
                      THEN http2RequestRawHeader(headers, h.raw)
                      ELSE IF ToLowerCase(h.name) # StrHost
                      THEN MapSet(headers, ToLowerCase(h.name), h.value)
                      ELSE headers
         IN  CHOOSE out \in { http2RequestHeaders(entries, i + 1, record) :
                                record \in {after} } : TRUE

\* RequestBuilder.buildHttp2Request()
buildHttp2Request(this) ==
    [method |-> this._method,
     path |-> this._path,
     authority |-> IF this._host # <<>> THEN this._host
                   ELSE getHostHeader(this).value,
     scheme |-> this._scheme,
     headers |-> http2RequestHeaders(headersOf(this), 1, <<>>),
     body |-> IF Truthy(this._body) THEN <<this._body>> ELSE <<>>]

\* ("Host", "v:8"), ("HOST", "w") and ("A", "v")
H2Pairs ==
    { <<<<72, 111, 115, 116>>, <<118, 58, 56>>>>,
      <<<<72, 79, 83, 84>>, <<119>>>>,
      <<<<65>>, <<118>>>> }

\* "Host: r", " hOst :r" and "B:x"
H2RawLines ==
    { <<72, 111, 115, 116, 58, 32, 114>>,
      <<32, 104, 79, 115, 116, 32, 58, 114>>,
      <<66, 58, 120>> }

NextAuthority ==
    \/ \E h \in Hosts : Host(1, h)
    \/ \E pair \in H2Pairs : Header(1, pair[1], pair[2])
    \/ \E rawLine \in H2RawLines : RawHeader(1, rawLine)

SpecAuthority == InitBuilderOnly /\ [][NextAuthority]_vars

\* ":authority"
StrColonAuthority == <<58, 97, 117, 116, 104, 111, 114, 105, 116, 121>>

\* The names of a Map or Record that are not pseudo-headers.
RegularNames(headers) ==
    { headers[i][1] : i \in { j \in 1..Len(headers) :
                                headers[j][1] = <<>> \/ headers[j][1][1] # 58 } }

\* The host of a builder, else the hostname of its Host header.
AuthorityOf(this) ==
    IF this._host # <<>> THEN this._host ELSE getHostHeader(this).value

\* C38: in buildHttp2Headers() and in buildHttp2Request() :authority is the
\* builder's host or, without one, the hostname of its Host header; every
\* regular header name is in lower case; and no regular header is named
\* host, whether Host was added by header() or by rawHeader().
C38_AuthorityAndNoHostHeader ==
    LET this == builders[1]
        map == buildHttp2Headers(this)
        request == buildHttp2Request(this)
    IN  /\ RecordGet(map, StrColonAuthority) = AuthorityOf(this)
        /\ request.authority = AuthorityOf(this)
        /\ \A name \in RegularNames(map) \cup RegularNames(request.headers) :
               /\ name = ToLowerCase(name)
               /\ name # StrHost

(***************************************************************************)
(* Http2FrameBuilder.buildPriorityFrame, and the parser on a HEADERS frame *)
(* that carries the same five priority bytes.  A dependency is below 2^31; *)
(* dependency | 0x80000000 is a 32-bit signed integer.                     *)
(***************************************************************************)
FrameTypePRIORITY == 2

\* dependency | 0x80000000: the bits of the dependency under a sign bit.
OrTopBit(dependency) == dependency - 2147483647 - 1

\* payload.writeUInt32BE(value, 0) of a 32-bit signed integer.  A negative
\* value is outside the range of the method: a runtime that validates the
\* value throws a RangeError, one that stores through a DataView writes the
\* value modulo 2^32.
writeUInt32BE(value, validates) ==
    LET low31 == IF value < 0 THEN value + 2147483647 + 1 ELSE value
        top   == IF value < 0 THEN 128 ELSE 0
    IN  IF value < 0 /\ validates
        THEN [threw |-> TRUE, bytes |-> <<>>]
        ELSE [threw |-> FALSE,
              bytes |-> <<top + low31 \div 16777216, (low31 \div 65536) % 256,
                          (low31 \div 256) % 256, low31 % 256>>]

\* buildPriorityFrame(streamId, dependency, weight, exclusive)
buildPriorityFrame(streamId, dependency, weight, exclusive, validates) ==
    LET depValue == IF exclusive THEN OrTopBit(dependency) ELSE dependency
        written  == writeUInt32BE(depValue, validates)
    IN  IF written.threw
        THEN [threw |-> TRUE, bytes |-> <<>>]
        ELSE [threw |-> FALSE,
              bytes |-> buildFrame(FrameTypePRIORITY, 0, UInt32Of(streamId),
                                   written.bytes \o <<weight - 1>>)]

\* 0, 1, 255, 256, 2^16 - 1, 2^16, 2^24 and 2^31 - 1
Dependencies == {0, 1, 255, 256, 65535, 65536, 16777216, 2147483647}

Weights == {1, 2, 128, 255, 256}

\* The HEADERS frame (PRIORITY | END_HEADERS) whose payload is the payload
\* of a PRIORITY frame and an empty header block.
HeadersFrameWith(priorityBytes) ==
    [length |-> Len(priorityBytes), type |-> FrameTypeHEADERS,
     flags |-> FlagPRIORITY + FlagEND_HEADERS, streamId |-> 1,
     payload |-> priorityBytes]

\* A caller builds a PRIORITY frame and parses its payload in a HEADERS
\* frame.
PriorityCall(streamId, dependency, weight, exclusive, validates) ==
    /\ LET built1 == buildPriorityFrame(streamId, dependency, weight, exclusive,
                                        validates)
           frame  == parseFrame(built1.bytes, 0)
       IN  framing' =
               [called |-> TRUE, dependency |-> dependency, weight |-> weight,
                exclusive |-> exclusive, threw |-> built1.threw,
                bytes |-> built1.bytes,
                parsed |-> IF built1.threw \/ frame.isNull THEN <<>>
                           ELSE <<parseHeadersPayload(
                                      HeadersFrameWith(frame.frame.payload), <<>>)>>]
    /\ UNCHANGED <<decoderLog, sendVars>>
    /\ UNCHANGED notCodecVars

NextPriority ==
    \E streamId \in {1, 3}, dependency \in Dependencies, weight \in Weights,
       exclusive \in BOOLEAN, validates \in BOOLEAN :
        PriorityCall(streamId, dependency, weight, exclusive, validates)

InitPriority ==
    /\ framing = [called |-> FALSE, dependency |-> 0, weight |-> 1,
                  exclusive |-> FALSE, threw |-> FALSE, bytes |-> <<>>,
                  parsed |-> <<>>]
    /\ decoderLog = <<>>
    /\ InitSend /\ InitPoolUnused /\ InitSplitUnused /\ InitBuilderUnused
    /\ InitHpackUnused /\ InitFrameUnused /\ InitParseUnused /\ InitTimingUnused

SpecPriority == InitPriority /\ [][NextPriority]_vars

\* exclusive (1 bit) | dependency (31 bits), then weight - 1
PriorityBytes(dependency, weight, exclusive) ==
    <<(IF exclusive THEN 128 ELSE 0) + dependency \div 16777216,
      (dependency \div 65536) % 256, (dependency \div 256) % 256,
      dependency % 256, weight - 1>>

\* C39: for a dependency below 2^31, a weight in 1..256 and both values of
\* exclusive, buildPriorityFrame returns a PRIORITY frame whose 5-byte
\* payload is exclusive in the top bit of the first four bytes, the
\* dependency in their low 31 bits and weight - 1 in the fifth, and a HEADERS
\* frame with these 5 bytes parses to exclusive, dependency and weight.
C39_PriorityBytesRoundTrip ==
    framing.called =>
        /\ ~framing.threw
        /\ Len(framing.bytes) = 14
        /\ framing.bytes[4] = FrameTypePRIORITY
        /\ Subarray(framing.bytes, 9, 14)
               = PriorityBytes(framing.dependency, framing.weight, framing.exclusive)
        /\ framing.parsed # <<>>
        /\ ~framing.parsed[1].threw
        /\ framing.parsed[1].hasPriority
        /\ framing.parsed[1].priority
               = [exclusive |-> framing.exclusive, dependency |-> framing.dependency,
                  weight |-> framing.weight]

(***************************************************************************)
(* RawHttp.hostHeaderAttack (src/src/client.ts): the request built for     *)
(* each of the attack types a caller may name.                             *)
(***************************************************************************)
AttackTypes == {"duplicate", "override", "absolute-url", "port-injection", "subdomain"}

\* "X-Forwarded-Host"
StrXForwardedHost ==
    <<88, 45, 70, 111, 114, 119, 97, 114, 100, 101, 100, 45, 72, 111, 115, 116>>

\* "X-Host"
StrXHost == <<88, 45, 72, 111, 115, 116>>

\* "X-Original-Host"
StrXOriginalHost ==
    <<88, 45, 79, 114, 105, 103, 105, 110, 97, 108, 45, 72, 111, 115, 116>>

\* "Forwarded"
StrForwarded == <<70, 111, 114, 119, 97, 114, 100, 101, 100>>

\* "host=" of the Forwarded header
StrHostEquals == <<104, 111, 115, 116, 61>>

\* "Host", the name hostHeaderAttack gives its headers
StrHostName == <<72, 111, 115, 116>>

\* The headers the switch over options.attackType adds to the builder.
attackHeaders(options) ==
    IF options.attackType = "duplicate"
    THEN <<StructuredEntry(StrHostName, options.legitimateHost),
           StructuredEntry(StrHostName, options.attackHost)>>
    ELSE IF options.attackType = "override"
    THEN <<StructuredEntry(StrHostName, options.legitimateHost),
           StructuredEntry(StrXForwardedHost, options.attackHost),
           StructuredEntry(StrXHost, options.attackHost),
           StructuredEntry(StrXOriginalHost, options.attackHost),
           StructuredEntry(StrForwarded, StrHostEquals \o options.attackHost)>>
    ELSE IF options.attackType = "port-injection"
    THEN <<StructuredEntry(StrHostName,
                           options.legitimateHost \o <<58>> \o options.attackHost)>>
    ELSE IF options.attackType = "subdomain"
    THEN <<StructuredEntry(StrHostName,
                           options.attackHost \o <<46>> \o options.legitimateHost)>>
    ELSE <<StructuredEntry(StrHostName, options.legitimateHost)>>

\* RawHttp.hostHeaderAttack(options): build() of a new builder with method
\* GET, the path options.path || "/" and the headers above; path = "" stands
\* for a path left out.
hostHeaderAttack(options) ==
    LET this == [NewBuilder(1) EXCEPT
                    !._method = StrGET,
                    !._path = IF options.path # <<>> THEN options.path ELSE StrSlash]
        entries == attackHeaders(options)
    IN  Join(<<requestLine(this)>>
                 \o [i \in 1..Len(entries) |-> headerLine(entries[i])]
                 \o << <<>> >>,
             this._lineEnding)

\* "t", "t.c", "a" and "b"
LegitimateHosts == { <<116>>, <<116, 46, 99>>, <<97>>, <<98>> }

\* "e", "e.c", "x" and "8"
AttackHosts == { <<101>>, <<101, 46, 99>>, <<120>>, <<56>> }

\* A caller asks for the request of one attack type.
AttackCall(options) ==
    /\ built' = [of |-> 1, request |-> hostHeaderAttack(options), options |-> options]
    /\ UNCHANGED <<builders, headerArrays, calls>>
    /\ UNCHANGED notBuilderVars

NextAttack ==
    \E attackType \in AttackTypes, legitimateHost \in LegitimateHosts,
       attackHost \in AttackHosts, path \in {<<>>, StrSlashP} :
        AttackCall([legitimateHost |-> legitimateHost, attackHost |-> attackHost,
                    path |-> path, attackType |-> attackType])

SpecAttack == InitBuilderOnly /\ [][NextAttack]_vars

\* C40: for each of the five attack types the request hostHeaderAttack
\* returns has the attack host somewhere in it and is not the request it
\* returns for any other type with the same hosts and path.
C40_CarriesAttackHostAndDiffers ==
    built.of # 0 =>
        /\ IndexOf(built.request, built.options.attackHost, 0) # -1
        /\ \A other \in AttackTypes \ {built.options.attackType} :
               hostHeaderAttack([built.options EXCEPT !.attackType = other])
                   # built.request
====
